---------------------------- MODULE Spec2Model ----------------------------
(***************************************************************************)
(* State-machine model of the adaptive context pipeline of                 *)
(* earnings-gen-ai:                                                        *)
(*   - AdaptiveRateLimiter  (src/unnamed/part_002, adaptive-rate-limiter)  *)
(*   - ContentCache         (src/unnamed/part_003, content-cache)          *)
(* Times are milliseconds, as Date.now() returns them.  Ratios that the    *)
(* code keeps as floats (success rates, the health multiplier) are kept    *)
(* exactly: user success rates are compared by cross-multiplication, the   *)
(* health EMA and multiplier are integers in thousandths (1000 = 1.0).     *)
(***************************************************************************)
EXTENDS Integers, Sequences, FiniteSets, TLC

VARIABLES
    now,          \* Date.now()
    userLimits,   \* AdaptiveRateLimiter.userLimits : Map userId -> record
    apiHealth,    \* AdaptiveRateLimiter.apiHealth
    limitsFile,   \* ./user-limits.json as last written by saveUserData
    outcomes,     \* number of recordRequest effects since construction
    ticks,        \* number of clock advances since construction
    call,         \* the last limiter call: arguments, pre-state, return value
    memoryCache,  \* ContentCache.memoryCache : Map key -> entry, in insertion order
    cacheFiles,   \* ./cache/<key>.json : key -> file text
    cacheIndex,   \* ./cache/index.json
    cacheStats,   \* ContentCache.cacheStats (hits, misses, saves)
    stored,       \* key -> the entry of the last cacheContent that returned true
    cacheCall,    \* the last cache call: its key, its time and what it returned
    race,         \* the cache calls in flight when their fs calls interleave
    orch,         \* the route handlers in flight: where each one stands
    manager,      \* the fields of the SystemPromptManager
    promptCall,   \* the last call of the manager: its argument and what it did
    chunker,      \* the last call of the SmartContentProcessor and its result
    debouncer,    \* the debounced functions, the timers of the event loop, its clock
    client        \* the RealtimeClient, its sockets and its reconnect timers

limiterVars == <<userLimits, apiHealth, limitsFile, outcomes, call>>
cacheVars   == <<memoryCache, cacheFiles, cacheIndex, cacheStats, stored, cacheCall>>
raceVars    == <<race>>
orchVars    == <<orch>>
promptVars  == <<manager, promptCall>>
chunkVars   == <<chunker>>
debounceVars == <<debouncer>>
clientVars  == <<client>>
otherVars   == <<raceVars, orchVars, promptVars, chunkVars, debounceVars, clientVars>>
vars        == <<now, ticks, userLimits, apiHealth, limitsFile, outcomes, call,
                 memoryCache, cacheFiles, cacheIndex, cacheStats, stored, cacheCall,
                 race, orch, manager, promptCall, chunker, debouncer, client>>

(***************************************************************************)
(* Bounds of the model.                                                    *)
(***************************************************************************)
StartNow    == 4000000   \* Date.now() at construction (any value > 1 hour)
MaxOutcomes == 4         \* recorded outcomes explored after construction
MaxTicks    == 2         \* clock advances explored after construction

MaxCacheOps == 4         \* counted cache calls (hits + misses + saves) explored

Users == {"u1"}

\* Clock advances used with the limiter: two of the first make exactly one
\* window, 29500 + 30500 = 60000; either leaves a sub-second remainder.
LimiterDeltas == {29500, 30500}

(***************************************************************************)
(* AdaptiveRateLimiter: constants                                          *)
(***************************************************************************)
windowMs       == 60000      \* baseLimits[*].window
healthResetMs  == 3600000    \* updateApiHealth: hourly reset
saveEvery      == 100        \* recordRequest: save every 100 outcomes

Tiers == {"newUser", "regular", "power", "enterprise"}

baseLimits ==
    [ newUser    |-> [requests |-> 5,  window |-> windowMs],
      regular    |-> [requests |-> 15, window |-> windowMs],
      power      |-> [requests |-> 25, window |-> windowMs],
      enterprise |-> [requests |-> 50, window |-> windowMs] ]

\* getNextTier: const tiers = ['newUser','regular','power','enterprise']
tierIndex(t) ==
    CASE t = "newUser"    -> 0
      [] t = "regular"    -> 1
      [] t = "power"      -> 2
      [] t = "enterprise" -> 3

\* The record getUserLimit stores for a user it has not seen.
NewUserRec ==
    [ tier |-> "newUser", requests |-> 0, lastRequest |-> 0,
      successCount |-> 0, errorCount |-> 0, upgradeEligible |-> FALSE ]

\* Stands for `undefined` where a user record is expected.
UndefinedUser ==
    [ tier |-> "undefined", requests |-> 0, lastRequest |-> 0,
      successCount |-> 0, errorCount |-> 0, upgradeEligible |-> FALSE ]

\* The apiHealth the constructor sets at time t.
FreshHealth(t) ==
    [ successRate |-> 1000, errorCount |-> 0, totalRequests |-> 0,
      lastReset |-> t ]

Max(a, b) == IF a >= b THEN a ELSE b
Min(a, b) == IF a <= b THEN a ELSE b
\* Math.ceil(a / b) for integers a and b > 0
CeilDiv(a, b) == -((-a) \div b)

(***************************************************************************)
(* AdaptiveRateLimiter: pure parts                                         *)
(***************************************************************************)
\* getHealthMultiplier, in thousandths
getHealthMultiplier(h) ==
    IF h.successRate < 800
    THEN Max(500, h.successRate)
    ELSE IF h.successRate > 950 /\ h.totalRequests > 1000
         THEN Min(1500, 1000 + (h.successRate - 950) * 2)
         ELSE 1000

\* userLimits after getUserLimit's lazy creation of userId
withUser(ul, u) ==
    IF u \in DOMAIN ul THEN ul
    ELSE [x \in DOMAIN ul \cup {u} |-> IF x \in DOMAIN ul THEN ul[x] ELSE NewUserRec]

\* getUserLimit's return value for a user record
limitOf(user, h) ==
    [ requests |-> (baseLimits[user.tier].requests * getHealthMultiplier(h)) \div 1000,
      window   |-> baseLimits[user.tier].window,
      tier     |-> user.tier,
      healthMultiplier |-> getHealthMultiplier(h) ]

NoLimit == [requests |-> 0, window |-> 0, tier |-> "undefined", healthMultiplier |-> 0]

\* successRate >= num/den, for successRate = successCount / (successCount + errorCount).
\* 0/0 is NaN in the code and compares false with everything.
RateAtLeast(user, num, den) ==
    /\ user.successCount + user.errorCount > 0
    /\ user.successCount * den >= num * (user.successCount + user.errorCount)
RateBelow(user, num, den) ==
    /\ user.successCount + user.errorCount > 0
    /\ user.successCount * den < num * (user.successCount + user.errorCount)

totalOf(user) == user.successCount + user.errorCount

\* updateUserTier with the first upgrade test written totalRequests > 50
updateUserTier_Late(user) ==
    LET upgraded ==
            IF totalOf(user) > 50 /\ RateAtLeast(user, 9, 10) /\ user.tier = "newUser"
            THEN [user EXCEPT !.tier = "regular", !.upgradeEligible = FALSE]
            ELSE IF totalOf(user) >= 200 /\ RateAtLeast(user, 95, 100) /\ user.tier = "regular"
                 THEN [user EXCEPT !.tier = "power", !.upgradeEligible = FALSE]
                 ELSE user
    IN  IF totalOf(upgraded) >= 100 /\ RateBelow(upgraded, 7, 10) /\ upgraded.tier # "newUser"
        THEN [upgraded EXCEPT !.tier = IF upgraded.tier = "power" THEN "regular" ELSE "newUser"]
        ELSE upgraded

\* updateUserTier with a third upgrade, power -> enterprise, on the terms of
\* the second
updateUserTier_ToEnterprise(user) ==
    LET upgraded ==
            IF totalOf(user) >= 50 /\ RateAtLeast(user, 9, 10) /\ user.tier = "newUser"
            THEN [user EXCEPT !.tier = "regular", !.upgradeEligible = FALSE]
            ELSE IF totalOf(user) >= 200 /\ RateAtLeast(user, 95, 100) /\ user.tier = "regular"
                 THEN [user EXCEPT !.tier = "power", !.upgradeEligible = FALSE]
                 ELSE IF totalOf(user) >= 200 /\ RateAtLeast(user, 95, 100) /\ user.tier = "power"
                      THEN [user EXCEPT !.tier = "enterprise", !.upgradeEligible = FALSE]
                      ELSE user
    IN  IF totalOf(upgraded) >= 100 /\ RateBelow(upgraded, 7, 10) /\ upgraded.tier # "newUser"
        THEN [upgraded EXCEPT !.tier = IF upgraded.tier = "power" THEN "regular" ELSE "newUser"]
        ELSE upgraded

\* updateUserTier: the user record after the upgrade and downgrade checks
updateUserTier(user) ==
    LET upgraded ==
            IF totalOf(user) >= 50 /\ RateAtLeast(user, 9, 10) /\ user.tier = "newUser"
            THEN [user EXCEPT !.tier = "regular", !.upgradeEligible = FALSE]
            ELSE IF totalOf(user) >= 200 /\ RateAtLeast(user, 95, 100) /\ user.tier = "regular"
                 THEN [user EXCEPT !.tier = "power", !.upgradeEligible = FALSE]
                 ELSE user
    IN  IF totalOf(upgraded) >= 100 /\ RateBelow(upgraded, 7, 10) /\ upgraded.tier # "newUser"
        THEN [upgraded EXCEPT !.tier = IF upgraded.tier = "power" THEN "regular" ELSE "newUser"]
        ELSE upgraded

\* updateApiHealth at time t
updateApiHealth(h, t) ==
    IF t - h.lastReset > healthResetMs THEN FreshHealth(t) ELSE h

\* recordRequest's first half: the counters of the user and of apiHealth.
\* successRate * 0.9 + 0.1 in thousandths (exact at 1000, the only value the
\* code ever holds: 1.0 * 0.9 + 0.1 = 1.0).
countOutcome(user, success) ==
    IF success THEN [user EXCEPT !.successCount = @ + 1]
               ELSE [user EXCEPT !.errorCount = @ + 1]

\* the EMA moved down by a failure as it is moved up by a success
healthAfterOutcome_Symmetric(h, success) ==
    LET h1 == IF success
              THEN [h EXCEPT !.successRate = (@ * 9) \div 10 + 100]
              ELSE [h EXCEPT !.successRate = (@ * 9) \div 10, !.errorCount = @ + 1]
    IN  [h1 EXCEPT !.totalRequests = @ + 1]

healthAfterOutcome(h, success) ==
    LET h1 == IF success
              THEN [h EXCEPT !.successRate = (@ * 9) \div 10 + 100]
              ELSE [h EXCEPT !.errorCount = @ + 1]
    IN  [h1 EXCEPT !.totalRequests = @ + 1]

NoFile == [exists |-> FALSE, userLimits |-> <<>>, apiHealth |-> FreshHealth(0), timestamp |-> 0]

\* saveUserData at time t
saveUserData(ul, h, t) ==
    [exists |-> TRUE, userLimits |-> ul, apiHealth |-> h, timestamp |-> t]

\* recordRequest(userId, success) at time t on (ul, h, file): the three after it.
recordRequest(ul, h, file, u, success, t) ==
    IF u \notin DOMAIN ul
    THEN [ul |-> ul, h |-> h, file |-> file, recorded |-> FALSE]
    ELSE LET ul1 == [ul EXCEPT ![u] = updateUserTier(countOutcome(ul[u], success))]
             h1  == updateApiHealth(healthAfterOutcome(h, success), t)
         IN  [ ul |-> ul1, h |-> h1,
               file |-> IF h1.totalRequests % saveEvery = 0
                        THEN saveUserData(ul1, h1, t) ELSE file,
               recorded |-> TRUE ]

(***************************************************************************)
(* isRequestAllowed: its conditions and its window reset                   *)
(***************************************************************************)
\* line 60: now - user.lastRequest > limit.window
windowPassed(user, limit, t) == t - user.lastRequest > limit.window

\* the reset with the counter left as it was
resetWindow_KeepCount(user, t) == [user EXCEPT !.lastRequest = t]

\* lines 61-62
resetWindow(user, t) == [user EXCEPT !.requests = 0, !.lastRequest = t]

\* the limit test written <=
underLimit_Inclusive(user, limit) == user.requests <= limit.requests

\* line 67
underLimit(user, limit) == user.requests < limit.requests

\* lines 68-69
countRequest(user, t) == [user EXCEPT !.requests = @ + 1, !.lastRequest = t]

\* the retry time rounded down (Math.floor)
retryAfterOf_Floor(user, limit, t) == (limit.window - (t - user.lastRequest)) \div 1000

\* lines 77-78: Math.ceil((limit.window - (now - user.lastRequest)) / 1000)
retryAfterOf(user, limit, t) == CeilDiv(limit.window - (t - user.lastRequest), 1000)

NoCall ==
    [ op |-> "none", userId |-> "", success |-> FALSE, had |-> FALSE,
      before |-> UndefinedUser, at |-> 0, limit |-> NoLimit, windowReset |-> FALSE,
      outcome |-> "none", allowed |-> FALSE, remaining |-> 0, retryAfter |-> 0,
      windowEnd |-> 0 ]

\* What every call records of itself.
CallOf(op, u) ==
    [ NoCall EXCEPT !.op = op, !.userId = u, !.at = now,
                    !.had = (u \in DOMAIN userLimits),
                    !.before = IF u \in DOMAIN userLimits THEN userLimits[u] ELSE UndefinedUser ]

(***************************************************************************)
(* AdaptiveRateLimiter: construction                                       *)
(***************************************************************************)
UserRec(tier, requests, lastRequest, successCount, errorCount) ==
    [ tier |-> tier, requests |-> requests, lastRequest |-> lastRequest,
      successCount |-> successCount, errorCount |-> errorCount,
      upgradeEligible |-> FALSE ]

Health(totalRequests, errorCount, lastReset) ==
    [ successRate |-> 1000, errorCount |-> errorCount,
      totalRequests |-> totalRequests, lastReset |-> lastReset ]

OneUser(rec) == [x \in {"u1"} |-> rec]

\* The ./user-limits.json files the constructor is started on.  Each but the
\* last is a state an earlier run of the limiter reaches and saves; the tier
\* enterprise is assigned by no code path, so an enterprise record is one
\* the operator provisioned in the file.
PersistedFiles ==
    { \* newUser, 3 requests counted in a window opened one second ago
      saveUserData(OneUser(UserRec("newUser", 3, StartNow - 1000, 8, 0)),
                   Health(8, 0, StartNow - 1000), StartNow - 1000),
      \* 48 outcomes, 44 successes: two short of the newUser -> regular check
      saveUserData(OneUser(UserRec("newUser", 0, 0, 44, 4)),
                   Health(48, 4, StartNow - 1000), StartNow - 1000),
      \* regular, 98 outcomes at success rate 50/98
      saveUserData(OneUser(UserRec("regular", 0, 0, 50, 48)),
                   Health(98, 48, StartNow - 1000), StartNow - 1000),
      \* power, 23 requests counted in a window opened one second ago
      saveUserData(OneUser(UserRec("power", 23, StartNow - 1000, 230, 0)),
                   Health(230, 0, StartNow - 1000), StartNow - 1000),
      \* power at 200/285; the health snapshot is older than an hour
      saveUserData(OneUser(UserRec("power", 0, 0, 200, 85)),
                   Health(285, 85, StartNow - healthResetMs - 1), StartNow - healthResetMs - 1),
      \* regular, with 999 outcomes of all users in the current health hour
      saveUserData(OneUser(UserRec("regular", 14, StartNow - 1000, 60, 0)),
                   Health(999, 0, StartNow - 1000), StartNow - 1000),
      \* enterprise (provisioned), 99 outcomes at success rate 70/99
      saveUserData(OneUser(UserRec("enterprise", 0, 0, 70, 29)),
                   Health(99, 29, StartNow - 1000), StartNow - 1000) }

\* constructor + loadUserData on `file`
LimiterInit(file) ==
    /\ userLimits = IF file.exists THEN file.userLimits ELSE <<>>
    /\ apiHealth  = IF file.exists THEN file.apiHealth ELSE FreshHealth(now)
    /\ limitsFile = file
    /\ outcomes = 0
    /\ call = NoCall

(***************************************************************************)
(* AdaptiveRateLimiter: operations                                         *)
(***************************************************************************)
\* getUserLimit(userId), as the stats and status routes call it
GetUserLimit(u) ==
    /\ userLimits' = withUser(userLimits, u)
    /\ call' = [CallOf("getUserLimit", u) EXCEPT
                    !.outcome = "returned",
                    !.limit = limitOf(withUser(userLimits, u)[u], apiHealth)]
    /\ UNCHANGED <<apiHealth, limitsFile, outcomes>>

\* recordRequest(userId, success), as the routes call it after the AI call
RecordRequest(u, success) ==
    /\ outcomes < MaxOutcomes
    /\ LET r == recordRequest(userLimits, apiHealth, limitsFile, u, success, now)
       IN  /\ userLimits' = r.ul
           /\ apiHealth' = r.h
           /\ limitsFile' = r.file
           /\ outcomes' = IF r.recorded THEN outcomes + 1 ELSE outcomes
    /\ call' = [CallOf("recordRequest", u) EXCEPT !.success = success, !.outcome = "returned"]

\* isRequestAllowed(userId)
IsRequestAllowed(u) ==
    LET had   == u \in DOMAIN userLimits         \* line 55: user may be undefined
        ul0   == withUser(userLimits, u)         \* line 56: getUserLimit creates it
        limit == limitOf(ul0[u], apiHealth)
        c0    == [CallOf("isRequestAllowed", u) EXCEPT !.limit = limit]
    IN  IF ~had
        THEN \* line 60 reads user.lastRequest of undefined: TypeError
             /\ userLimits' = ul0
             /\ call' = [c0 EXCEPT !.outcome = "threw"]
             /\ UNCHANGED <<apiHealth, limitsFile, outcomes>>
        ELSE LET user0 == userLimits[u]
                 reset == windowPassed(user0, limit, now)
                 user1 == IF reset THEN resetWindow(user0, now) ELSE user0
                 c1    == [c0 EXCEPT !.windowReset = reset, !.outcome = "returned"]
             IN  /\ outcomes < MaxOutcomes
                 /\ outcomes' = outcomes + 1
                 /\ IF underLimit(user1, limit)
                    THEN LET user2 == countRequest(user1, now)
                             r == recordRequest([ul0 EXCEPT ![u] = user2], apiHealth,
                                                limitsFile, u, TRUE, now)
                         IN  /\ userLimits' = r.ul
                             /\ apiHealth' = r.h
                             /\ limitsFile' = r.file
                             /\ call' = [c1 EXCEPT !.allowed = TRUE,
                                            !.remaining = limit.requests - user2.requests]
                    ELSE LET r == recordRequest([ul0 EXCEPT ![u] = user1], apiHealth,
                                                limitsFile, u, FALSE, now)
                         IN  /\ userLimits' = r.ul
                             /\ apiHealth' = r.h
                             /\ limitsFile' = r.file
                             /\ call' = [c1 EXCEPT !.allowed = FALSE,
                                            !.remaining = 0,
                                            !.retryAfter = retryAfterOf(user1, limit, now),
                                            !.windowEnd = user1.lastRequest + limit.window]

\* POST /api/rate-limits/reset (src/server/services/ai-service.js)
ResetRateLimits(u) ==
    /\ u \in DOMAIN userLimits
    /\ userLimits' = [userLimits EXCEPT ![u].requests = 0, ![u].lastRequest = 0]
    /\ call' = [CallOf("resetRateLimits", u) EXCEPT !.outcome = "returned"]
    /\ UNCHANGED <<apiHealth, limitsFile, outcomes>>

\* The clock advances by d ms.
Advance(d) ==
    /\ ticks < MaxTicks
    /\ ticks' = ticks + 1
    /\ now' = now + d

(***************************************************************************)
(* ContentCache: constants and values                                      *)
(***************************************************************************)
\* this.maxMemorySize is 100 in the source; the model keeps the code and
\* scales the capacity so that three keys overflow it.
maxMemorySize == 2
\* cacheContent: expiresAt = Date.now() + 24 * 60 * 60 * 1000
ttlMs == 24 * 60 * 60 * 1000

\* Documents and queries.  ("a", "b|c") and ("a|b", "c") are two pairs with
\* one key; the other two pairs have keys of their own.
Contents == {"a", "a|b"}
Queries  == {"c", "b|c"}
Payloads == {"r1", "r2"}
\* the arguments of the cacheContent calls: every pair once, one pair with a
\* second payload
PutArgs == {<<c, q, "r1">> : c \in Contents, q \in Queries} \cup {<<"a", "c", "r2">>}
CacheDeltas == {ttlMs \div 2}

\* generateCacheKey: sha256 of content + '|' + query, the digest taken as
\* one-to-one on the combined string.
generateCacheKey(content, query) == content \o "|" \o query

Keys == {generateCacheKey(c, q) : c \in Contents, q \in Queries}

\* cacheContent's cacheData
cacheDataOf(content, query, processedChunks, t) ==
    [ content  |-> processedChunks,
      metadata |-> [ processingMethod |-> "smart-chunking",
                     originalLength |-> Len(content),
                     query     |-> query,
                     timestamp |-> t,
                     expiresAt |-> t + ttlMs ] ]

NoEntry ==
    [ content  |-> "",
      metadata |-> [ processingMethod |-> "", originalLength |-> 0, query |-> "",
                     timestamp |-> 0, expiresAt |-> 0 ] ]

\* fs.writeFileSync(cacheFile, JSON.stringify(cacheData, null, 2)) at time t
jsonFile(cacheData, t) == [text |-> "json", value |-> cacheData, mtime |-> t]

\* a parse that hands back whatever the file once held
jsonParse_Lenient(file) == [ok |-> TRUE, value |-> file.value]

\* JSON.parse(fs.readFileSync(cacheFile)): the value, or a SyntaxError
jsonParse(file) ==
    IF file.text = "json" THEN [ok |-> TRUE, value |-> file.value]
                          ELSE [ok |-> FALSE, value |-> NoEntry]

\* the validity test reading metadata.timestamp for metadata.expiresAt
isCacheValid_Timestamp(cached, t) ==
    IF cached.metadata.expiresAt = 0 THEN FALSE
    ELSE t < cached.metadata.timestamp

\* the validity test written <=
isCacheValid_Inclusive(cached, t) ==
    IF cached.metadata.expiresAt = 0 THEN FALSE
    ELSE t <= cached.metadata.expiresAt

\* isCacheValid at time t
isCacheValid(cached, t) ==
    IF cached.metadata.expiresAt = 0 THEN FALSE
    ELSE t < cached.metadata.expiresAt

(***************************************************************************)
(* ContentCache: the in-memory tier, a Map in insertion order              *)
(***************************************************************************)
memKeys(mem) == {mem[i].key : i \in 1..Len(mem)}
memGet(mem, k) == (CHOOSE i \in 1..Len(mem) : mem[i].key = k)
memData(mem, k) == mem[memGet(mem, k)].data

\* Map.set: a present key keeps its place, a new key goes last
memSet(mem, k, data) ==
    IF k \in memKeys(mem)
    THEN [mem EXCEPT ![memGet(mem, k)].data = data]
    ELSE Append(mem, [key |-> k, data |-> data])

\* the eviction taking the last key of the Map
evictOldest_Newest(mem) ==
    IF Len(mem) >= maxMemorySize THEN SubSeq(mem, 1, Len(mem) - 1) ELSE mem

\* lines 120-123: delete the first key of the Map when at capacity
evictOldest(mem) ==
    IF Len(mem) >= maxMemorySize THEN Tail(mem) ELSE mem

\* addToMemoryCache
addToMemoryCache(mem, k, data) == memSet(evictOldest(mem), k, data)

\* the files without the file of key k (fs.unlinkSync)
unlink(files, k) == [x \in DOMAIN files \ {k} |-> files[x]]
\* the files with the file of key k written
writeFile(files, k, file) ==
    [x \in DOMAIN files \cup {k} |-> IF x = k THEN file ELSE files[x]]

\* updateCacheIndex: read index.json if it exists, set the key's line, write
updateCacheIndex(index, k, cacheData) ==
    [ exists  |-> TRUE,
      entries |-> [x \in DOMAIN index.entries \cup {k} |->
                     IF x = k
                     THEN [ timestamp |-> cacheData.metadata.timestamp,
                            expiresAt |-> cacheData.metadata.expiresAt,
                            originalLength |-> cacheData.metadata.originalLength,
                            query |-> cacheData.metadata.query ]
                     ELSE index.entries[x]] ]

NoCacheCall ==
    [ op |-> "none", key |-> "", at |-> 0,
      hit |-> FALSE, tier |-> "", entry |-> NoEntry, ok |-> FALSE, keys |-> <<>> ]

CacheInit ==
    /\ memoryCache = <<>>
    /\ cacheFiles = <<>>
    /\ cacheIndex = [exists |-> FALSE, entries |-> <<>>]
    /\ cacheStats = [hits |-> 0, misses |-> 0, saves |-> 0]
    /\ stored = <<>>
    /\ cacheCall = NoCacheCall

cacheOps == cacheStats.hits + cacheStats.misses + cacheStats.saves

(***************************************************************************)
(* ContentCache: operations                                                *)
(***************************************************************************)
\* getCachedContent(content, query)
GetCachedContent(content, query) ==
    LET k  == generateCacheKey(content, query)
        c0 == [NoCacheCall EXCEPT !.op = "get", !.key = k, !.at = now]
    IN  /\ cacheOps < MaxCacheOps
        /\ IF k \in memKeys(memoryCache)
           THEN \* lines 43-48: memory hit
                /\ cacheStats' = [cacheStats EXCEPT !.hits = @ + 1]
                /\ cacheCall' = [c0 EXCEPT !.hit = TRUE, !.tier = "memory",
                                           !.entry = memData(memoryCache, k)]
                /\ UNCHANGED <<memoryCache, cacheFiles>>
           ELSE IF k \in DOMAIN cacheFiles
           THEN LET parsed == jsonParse(cacheFiles[k])
                IN  IF parsed.ok /\ isCacheValid(parsed.value, now)
                    THEN \* lines 57-64: disk hit, promoted
                         /\ cacheStats' = [cacheStats EXCEPT !.hits = @ + 1]
                         /\ memoryCache' = addToMemoryCache(memoryCache, k, parsed.value)
                         /\ cacheCall' = [c0 EXCEPT !.hit = TRUE, !.tier = "disk",
                                                    !.entry = parsed.value]
                         /\ UNCHANGED cacheFiles
                    ELSE \* lines 65-74: expired or unreadable, removed
                         /\ cacheFiles' = unlink(cacheFiles, k)
                         /\ cacheStats' = [cacheStats EXCEPT !.misses = @ + 1]
                         /\ cacheCall' = c0
                         /\ UNCHANGED memoryCache
           ELSE \* lines 77-78
                /\ cacheStats' = [cacheStats EXCEPT !.misses = @ + 1]
                /\ cacheCall' = c0
                /\ UNCHANGED <<memoryCache, cacheFiles>>
        /\ UNCHANGED <<cacheIndex, stored>>

\* cacheContent(content, query, processedChunks, metadata); writeOk is
\* whether fs.writeFileSync of the cache file succeeds
CacheContent(content, query, processedChunks, writeOk) ==
    LET k    == generateCacheKey(content, query)
        data == cacheDataOf(content, query, processedChunks, now)
        c0   == [NoCacheCall EXCEPT !.op = "put", !.key = k, !.at = now]
    IN  /\ cacheOps < MaxCacheOps
        /\ IF writeOk
           THEN /\ cacheFiles' = writeFile(cacheFiles, k, jsonFile(data, now))
                /\ memoryCache' = addToMemoryCache(memoryCache, k, data)
                /\ cacheIndex' = updateCacheIndex(cacheIndex, k, data)
                /\ cacheStats' = [cacheStats EXCEPT !.saves = @ + 1]
                /\ stored' = [x \in DOMAIN stored \cup {k} |->
                                 IF x = k THEN data ELSE stored[x]]
                /\ cacheCall' = [c0 EXCEPT !.ok = TRUE]
           ELSE \* lines 111-114: the write threw before anything was stored
                /\ cacheCall' = [c0 EXCEPT !.ok = FALSE]
                /\ UNCHANGED <<cacheFiles, memoryCache, cacheIndex, cacheStats, stored>>

\* the loop of preloadContent over the keys it is given
RECURSIVE preload(_, _, _, _)
preload(mem, files, keys, t) ==
    IF keys = <<>> THEN mem
    ELSE LET k == Head(keys)
             mem1 == IF k \in DOMAIN files
                        /\ jsonParse(files[k]).ok
                        /\ isCacheValid(jsonParse(files[k]).value, t)
                     THEN addToMemoryCache(mem, k, jsonParse(files[k]).value)
                     ELSE mem
         IN  preload(mem1, files, Tail(keys), t)

\* preloadContent(contentKeys)
PreloadContent(keys) ==
    /\ memoryCache' = preload(memoryCache, cacheFiles, keys, now)
    /\ cacheCall' = [NoCacheCall EXCEPT !.op = "preload", !.at = now, !.keys = keys]
    /\ UNCHANGED <<cacheFiles, cacheIndex, cacheStats, stored>>

\* the arguments of the preloadContent calls: every key alone, and one list
\* of two keys
KeyLists == {<<k>> : k \in Keys} \cup {<<generateCacheKey("a|b", "b|c"), generateCacheKey("a", "c")>>}

(***************************************************************************)
(* SystemPromptManager (src/server/system-prompt-manager.js)               *)
(*                                                                         *)
(* A string is the sequence of its pieces: a placeholder, a newline, a     *)
(* blank and a run of other text are one piece each.  A JavaScript value   *)
(* is a record of its type and, for a string, its pieces.                  *)
(***************************************************************************)
USER_TEXT         == "{{USER_TEXT}}"
RETRIEVED_CONTEXT == "{{RETRIEVED_CONTEXT}}"
NL                == "\n"
Whitespace        == {NL, " "}
\* the special replacement pattern $& of String.prototype.replace
MatchPattern      == "$&"

Str(pieces) == [type |-> "string", text |-> pieces]
Undefined   == [type |-> "undefined", text |-> <<>>]
ANumber     == [type |-> "number", text |-> <<>>]

\* ToBoolean: '' and undefined are falsy, a non-zero number is truthy
truthy(v) == IF v.type = "string" THEN v.text # <<>> ELSE v.type = "number"

\* lines 20-35
getDefaultTemplate ==
    << "Analyze the following text", NL, NL,
       "Historical Context", NL, RETRIEVED_CONTEXT, NL, NL,
       "Text to Analyze:", NL, USER_TEXT >>

\* template.includes('{{USER_TEXT}}'), line 42
includes(s, piece) == \E i \in 1..Len(s) : s[i] = piece

\* String.prototype.trim, lines 68 and 82
RECURSIVE trimStart(_)
trimStart(s) ==
    IF s # <<>> /\ Head(s) \in Whitespace THEN trimStart(Tail(s)) ELSE s

RECURSIVE trimEnd(_)
trimEnd(s) ==
    IF s # <<>> /\ s[Len(s)] \in Whitespace
    THEN trimEnd(SubSeq(s, 1, Len(s) - 1))
    ELSE s

trim(s) == trimEnd(trimStart(s))

\* the replacement text of one match: $& stands for the matched text
RECURSIVE expand(_, _)
expand(replacement, match) ==
    IF replacement = <<>> THEN <<>>
    ELSE (IF Head(replacement) = MatchPattern THEN <<match>> ELSE <<Head(replacement)>>)
         \o expand(Tail(replacement), match)

\* prompt.replace(/<placeholder>/g, replacement), lines 96-97
RECURSIVE replace(_, _, _)
replace(s, placeholder, replacement) ==
    IF s = <<>> THEN <<>>
    ELSE (IF Head(s) = placeholder THEN expand(replacement, placeholder) ELSE <<Head(s)>>)
         \o replace(Tail(s), placeholder, replacement)

\* the first index past the run of whitespace that starts at i
RECURSIVE whitespaceEnd(_, _)
whitespaceEnd(s, i) ==
    IF i <= Len(s) /\ s[i] \in Whitespace THEN whitespaceEnd(s, i + 1) ELSE i

newlinesIn(s, i, j) == Cardinality({k \in i..(j - 1) : s[k] = NL})

lastNewline(s, i, j) ==
    CHOOSE k \in i..(j - 1) : s[k] = NL /\ \A m \in (k + 1)..(j - 1) : s[m] # NL

\* prompt.replace(/\n\s*\n\s*\n/g, '\n\n'), line 100: a match starts at a
\* newline and runs, greedily, to the last newline of the whitespace run
RECURSIVE collapseFrom(_, _)
collapseFrom(s, i) ==
    IF i > Len(s) THEN <<>>
    ELSE IF s[i] = NL /\ newlinesIn(s, i, whitespaceEnd(s, i)) >= 3
         THEN <<NL, NL>> \o collapseFrom(s, lastNewline(s, i, whitespaceEnd(s, i)) + 1)
         ELSE <<s[i]>> \o collapseFrom(s, i + 1)

NoContextFound == "No relevant context found"

\* lines 93-100: the prompt text rebuildPrompt computes
buildPrompt(template, userText, context) ==
    LET p1 == replace(template, USER_TEXT, userText)
        p2 == replace(p1, RETRIEVED_CONTEXT,
                      IF context = <<>> THEN <<NoContextFound>> ELSE context)
    IN  collapseFrom(p2, 1)

\* The manager's fields as one value; promptUpdateCallbacks is the Set in
\* its insertion order.
NewManager ==
    [ baseTemplate            |-> getDefaultTemplate,
      currentUserText         |-> <<>>,
      currentRetrievedContext |-> <<>>,
      lastBuiltPrompt         |-> <<>>,
      promptUpdateCallbacks   |-> <<>> ]

\* what one call has built so far: each prompt with the callbacks it was
\* handed to, in the order of the calls
NoLog == <<>>

\* a forEach that lets the first exception end the loop
RECURSIVE notifyPromptUpdate_StopAtThrow(_, _)
notifyPromptUpdate_StopAtThrow(callbacks, throwers) ==
    IF callbacks = <<>> THEN <<>>
    ELSE IF Head(callbacks) \in throwers THEN <<Head(callbacks)>>
         ELSE <<Head(callbacks)>> \o notifyPromptUpdate_StopAtThrow(Tail(callbacks), throwers)

\* notifyPromptUpdate, lines 201-209: the callbacks that are called, in
\* order; each call sits in its own try/catch, so a callback of throwers
\* ends nothing but itself
RECURSIVE notifyPromptUpdate(_, _)
notifyPromptUpdate(callbacks, throwers) ==
    IF callbacks = <<>> THEN <<>>
    ELSE <<Head(callbacks)>> \o notifyPromptUpdate(Tail(callbacks), throwers)

\* rebuildPrompt, lines 91-117.  Nothing inside its try throws (the
\* callbacks' exceptions end in notifyPromptUpdate), so the catch of lines
\* 113-116 is never entered.
rebuildPrompt(m, log, throwers) ==
    LET prompt == buildPrompt(m.baseTemplate, m.currentUserText, m.currentRetrievedContext)
        called == notifyPromptUpdate(m.promptUpdateCallbacks, throwers)
    IN  [ m   |-> [m EXCEPT !.lastBuiltPrompt = prompt],
          log |-> Append(log, [prompt |-> prompt, called |-> called]) ]

\* a template that passes every test
acceptable_Any(template) == TRUE

\* the tests of lines 38 and 42
acceptable(template) ==
    /\ truthy(template)
    /\ template.type = "string"
    /\ includes(template.text, USER_TEXT)

Threw(m, log)    == [m |-> m, log |-> log, threw |-> TRUE]
Returned(result) == [m |-> result.m, log |-> result.log, threw |-> FALSE]

\* setBaseTemplate, lines 37-53
setBaseTemplate(m, log, template, throwers) ==
    IF ~acceptable(template) THEN Threw(m, log)
    ELSE Returned(rebuildPrompt([m EXCEPT !.baseTemplate = template.text], log, throwers))

\* updateUserText, lines 63-75
updateUserText(m, log, userText, throwers) ==
    IF userText.type # "string" THEN Threw(m, log)
    ELSE Returned(rebuildPrompt([m EXCEPT !.currentUserText = trim(userText.text)],
                                log, throwers))

\* updateRetrievedContext, lines 77-89
updateRetrievedContext(m, log, context, throwers) ==
    IF context.type # "string" THEN Threw(m, log)
    ELSE Returned(rebuildPrompt([m EXCEPT !.currentRetrievedContext = trim(context.text)],
                                log, throwers))

\* getCurrentPrompt, lines 119-124
getCurrentPrompt(m, log, throwers) ==
    IF m.lastBuiltPrompt = <<>> THEN Returned(rebuildPrompt(m, log, throwers))
    ELSE Returned([m |-> m, log |-> log])

\* a reset that clears the two inputs and keeps the built prompt
reset_KeepPrompt(m) ==
    [m EXCEPT !.currentUserText = <<>>,
              !.currentRetrievedContext = <<>>]

\* reset, lines 227-232
reset(m) ==
    [m EXCEPT !.currentUserText = <<>>,
              !.currentRetrievedContext = <<>>,
              !.lastBuiltPrompt = <<>>]

\* importTemplate, lines 244-262: the first setter that throws ends the
\* import, which then returns false (threw tells that it did)
importTemplate(m, log, templateData, throwers) ==
    LET r0 == [m |-> m, log |-> log, threw |-> FALSE]
        r1 == IF truthy(templateData.baseTemplate)
              THEN setBaseTemplate(m, log, templateData.baseTemplate, throwers)
              ELSE r0
        r2 == IF r1.threw THEN r1
              ELSE IF truthy(templateData.currentUserText)
                   THEN updateUserText(r1.m, r1.log, templateData.currentUserText, throwers)
                   ELSE r1
        r3 == IF r2.threw THEN r2
              ELSE IF truthy(templateData.currentRetrievedContext)
                   THEN updateRetrievedContext(r2.m, r2.log,
                                               templateData.currentRetrievedContext, throwers)
                   ELSE r2
    IN  r3

seqRange(s) == {s[i] : i \in 1..Len(s)}

\* Set.prototype.add, line 193, and Set.prototype.delete, line 198
setAdd(s, x) == IF x \in seqRange(s) THEN s ELSE Append(s, x)
setDelete(s, x) == SelectSeq(s, LAMBDA y : y # x)

\* the limit of line 166
maxPromptLength == 100000

\* a run of text one character longer than the limit of line 166
LongText == "<100001 characters>"

\* prompt.length: the characters of the pieces
RECURSIVE length(_)
length(s) ==
    IF s = <<>> THEN 0
    ELSE (IF Head(s) = LongText THEN maxPromptLength + 1 ELSE Len(Head(s)))
         + length(Tail(s))

\* what a call other than validatePrompt leaves in the place of a verdict
NoValidation ==
    [threw |-> FALSE, isValid |-> FALSE, issues |-> {}, length |-> 0,
     hasUserText |-> FALSE, hasContext |-> FALSE]

\* validatePrompt, lines 159-185.  A prompt that is no string ends in a
\* TypeError: at prompt.trim() of line 162 when it is truthy, at
\* prompt.length of line 166 when it is not.
validatePrompt(m, prompt) ==
    IF prompt.type # "string" THEN [NoValidation EXCEPT !.threw = TRUE]
    ELSE LET issues ==
                 (IF prompt.text = <<>> \/ trim(prompt.text) = <<>>
                  THEN {"Prompt is empty"} ELSE {})
                 \cup (IF length(prompt.text) > maxPromptLength
                       THEN {"Prompt exceeds recommended length"} ELSE {})
                 \cup (IF includes(prompt.text, USER_TEXT) /\ m.currentUserText = <<>>
                       THEN {"User text placeholder not filled"} ELSE {})
                 \cup (IF includes(prompt.text, RETRIEVED_CONTEXT)
                          /\ m.currentRetrievedContext = <<>>
                       THEN {"Retrieved context placeholder not filled"} ELSE {})
         IN  [ threw       |-> FALSE,
               isValid     |-> issues = {},
               issues      |-> issues,
               length      |-> length(prompt.text),
               hasUserText |-> m.currentUserText # <<>>,
               hasContext  |-> m.currentRetrievedContext # <<>> ]

\* no call of the manager made yet
NoPromptCall ==
    [ op |-> "none", arg |-> Undefined, throwers |-> {}, before |-> NewManager,
      threw |-> FALSE, builds |-> <<>>, validation |-> NoValidation,
      reentrants |-> {}, deliveries |-> <<>> ]

\* the subscribers there are to register
Subscribers == {"s1", "s2", "s3"}

\* the call of a setter and what it left behind
promptCallOf(op, arg, throwers, result) ==
    [ op |-> op, arg |-> arg, throwers |-> throwers, before |-> manager,
      threw |-> result.threw, builds |-> result.log, validation |-> NoValidation,
      reentrants |-> {}, deliveries |-> <<>> ]

SetBaseTemplate(template, throwers) ==
    LET result == setBaseTemplate(manager, NoLog, template, throwers)
    IN  /\ manager' = result.m
        /\ promptCall' = promptCallOf("setBaseTemplate", template, throwers, result)

UpdateUserText(userText, throwers) ==
    LET result == updateUserText(manager, NoLog, userText, throwers)
    IN  /\ manager' = result.m
        /\ promptCall' = promptCallOf("updateUserText", userText, throwers, result)

UpdateRetrievedContext(context, throwers) ==
    LET result == updateRetrievedContext(manager, NoLog, context, throwers)
    IN  /\ manager' = result.m
        /\ promptCall' = promptCallOf("updateRetrievedContext", context, throwers, result)

GetCurrentPrompt(throwers) ==
    LET result == getCurrentPrompt(manager, NoLog, throwers)
    IN  /\ manager' = result.m
        /\ promptCall' = promptCallOf("getCurrentPrompt", Undefined, throwers, result)

Reset ==
    /\ manager' = reset(manager)
    /\ promptCall' = promptCallOf("reset", Undefined, {},
                                  [m |-> reset(manager), log |-> NoLog, threw |-> FALSE])

ImportTemplate(templateData, throwers) ==
    LET result == importTemplate(manager, NoLog, templateData, throwers)
    IN  /\ manager' = result.m
        /\ promptCall' = promptCallOf("importTemplate", templateData.baseTemplate,
                                      throwers, result)

\* onPromptUpdate, lines 191-195, with a function
OnPromptUpdate(callback) ==
    LET m == [manager EXCEPT !.promptUpdateCallbacks = setAdd(@, callback)]
    IN  /\ manager' = m
        /\ promptCall' = promptCallOf("onPromptUpdate", Undefined, {},
                                      [m |-> m, log |-> NoLog, threw |-> FALSE])

\* offPromptUpdate, lines 197-199
OffPromptUpdate(callback) ==
    LET m == [manager EXCEPT !.promptUpdateCallbacks = setDelete(@, callback)]
    IN  /\ manager' = m
        /\ promptCall' = promptCallOf("offPromptUpdate", Undefined, {},
                                      [m |-> m, log |-> NoLog, threw |-> FALSE])

\* What a subscriber that calls back into the manager calls from inside
\* its callback, the first time it is called in a setter call: s1 fetches
\* context for the prompt it is handed, s2 normalises the user text.
reentryOf(callback) ==
    IF callback = "s1"
    THEN [op |-> "updateRetrievedContext", arg |-> <<"10-K">>]
    ELSE [op |-> "updateUserText", arg |-> <<"revenue">>]

\* updateUserText / updateRetrievedContext with a string, rebuildPrompt and
\* notifyPromptUpdate when callbacks of st.reentrants call a setter from
\* inside the forEach of line 202: the inner call runs to its end, with its
\* own rebuild and its own forEach over all callbacks, before the outer
\* forEach goes on to its next callback with the prompt of the outer call.
\* st holds the manager, the prompts built, the deliveries made and the
\* callbacks that have yet to call back.
RECURSIVE setterIn(_, _, _)
RECURSIVE rebuildPromptIn(_)
RECURSIVE notifyPromptUpdateIn(_, _, _)

setterIn(st, op, text) ==
    rebuildPromptIn(
        IF op = "updateUserText"
        THEN [st EXCEPT !.m.currentUserText = trim(text)]
        ELSE [st EXCEPT !.m.currentRetrievedContext = trim(text)])

rebuildPromptIn(st) ==
    LET prompt == buildPrompt(st.m.baseTemplate, st.m.currentUserText,
                              st.m.currentRetrievedContext)
    IN  notifyPromptUpdateIn(
            [st EXCEPT !.m.lastBuiltPrompt = prompt,
                       !.log = Append(@, [prompt |-> prompt,
                                          called |-> st.m.promptUpdateCallbacks])],
            st.m.promptUpdateCallbacks, prompt)

notifyPromptUpdateIn(st, callbacks, prompt) ==
    IF callbacks = <<>> THEN st
    ELSE LET callback  == Head(callbacks)
             delivered == [st EXCEPT !.deliveries =
                               Append(@, [to |-> callback, prompt |-> prompt])]
             after     == IF callback \in st.reentrants
                          THEN setterIn([delivered EXCEPT !.reentrants = @ \ {callback}],
                                        reentryOf(callback).op, reentryOf(callback).arg)
                          ELSE delivered
         IN  notifyPromptUpdateIn(after, Tail(callbacks), prompt)

\* the record of a setter call during which callbacks called back
reentrantCallOf(op, arg, reentrants, st) ==
    [ promptCallOf(op, arg, {}, [m |-> st.m, log |-> st.log, threw |-> FALSE])
        EXCEPT !.reentrants = reentrants, !.deliveries = st.deliveries ]

\* updateUserText(text) or updateRetrievedContext(text) with a string, the
\* callbacks of reentrants calling back into the manager
UpdateWithReentry(op, arg, reentrants) ==
    /\ arg.type = "string"
    /\ manager' = setterIn([m |-> manager, log |-> NoLog, deliveries |-> <<>>,
                            reentrants |-> reentrants], op, arg.text).m
    /\ promptCall' = reentrantCallOf(op, arg, reentrants,
                         setterIn([m |-> manager, log |-> NoLog, deliveries |-> <<>>,
                                   reentrants |-> reentrants], op, arg.text))

\* validatePrompt(prompt); the manager is left as it is
ValidatePrompt(prompt) ==
    LET verdict == validatePrompt(manager, prompt)
    IN  /\ manager' = manager
        /\ promptCall' = [promptCallOf("validatePrompt", prompt, {},
                                       [m |-> manager, log |-> NoLog,
                                        threw |-> verdict.threw])
                            EXCEPT !.validation = verdict]

(***************************************************************************)
(* SmartContentProcessor (src/server/smart-content-processor.js)           *)
(*                                                                         *)
(* A text is the sequence of its pieces, as above, and here every piece    *)
(* counts as one character: the sizes of lines 8, 9, 137 and 296 are       *)
(* scaled to texts of a few pieces.  The texts hold markdown headers and   *)
(* headers in capitals; they hold no numbered header and no header that    *)
(* ends in a colon, so the third and fourth pattern of lines 77-78 match   *)
(* nowhere.                                                                *)
(***************************************************************************)
maxChunkSize     == 14
overlapSize      == 2
minSectionLength == 3

MarkdownHeaders == {"# Results", "# Outlook", "# Notes", "# Risks"}
CapsHeaders     == {"SUMMARY"}

\* lines 96-100 and 102-109
disclaimerKeywords ==
    {"disclaimer", "legal", "forward-looking", "cautionary", "apologize", "notice",
     "standard", "portion", "moderator", "introduction", "opening remarks",
     "good morning", "welcome"}

businessKeywords ==
    {"revenue", "earnings", "profit", "growth", "financial", "quarter", "performance",
     "strategy", "initiative", "business", "operational", "market", "segment",
     "medical", "health", "care", "provider", "network", "medicare", "medicaid",
     "aca", "employer", "portfolio", "billion", "million", "cost", "trend",
     "utilization"}

\* lines 186-190 and 199-205
disclaimerPatterns ==
    {"disclaimer", "legal", "forward-looking", "cautionary", "moderator",
     "introduction", "opening remarks", "apologize", "notice", "standard", "portion"}

businessPatterns ==
    {"revenue", "earnings", "profit", "growth", "financial", "quarter", "performance",
     "strategy", "initiative", "business", "operational", "market", "segment",
     "medical", "health", "care", "provider", "network", "utilization", "quality",
     "satisfaction", "investment"}

\* the words of the texts that hold a shorter word
Substrings == {<<"healthcare", "health">>, <<"healthcare", "care">>}

\* the piece, in lower case, holds the word
holds(piece, word) == piece = word \/ <<piece, word>> \in Substrings

\* sectionLower.includes(keyword), lines 112 and 116; pattern.test, 193 and 208
textIncludes(text, word) == \E i \in 1..Len(text) : holds(text[i], word)

\* (contentLower.match(regex) || []).length, line 221
occurrences(text, word) == Cardinality({i \in 1..Len(text) : holds(text[i], word)})

\* a relevance is the fraction num / den
Fraction(num, den) == [num |-> num, den |-> den]
Half == Fraction(5, 10)
fractionLess(a, b) == a.num * b.den < b.num * a.den

\* query.toLowerCase().split(/\s+/), line 179: the pieces between the runs of
\* whitespace, the empty ones at either end included
RECURSIVE splitWords(_, _)
splitWords(query, word) ==
    IF query = <<>> THEN <<word>>
    ELSE IF Head(query) \in Whitespace
         THEN <<word>> \o splitWords(trimStart(query), "")
         ELSE splitWords(Tail(query), word \o Head(query))

RECURSIVE sumOver(_, _, _)
sumOver(words, text, exact) ==
    IF words = <<>> THEN 0
    ELSE (IF Len(Head(words)) < 3 THEN 0
          ELSE IF exact THEN (IF textIncludes(text, Head(words)) THEN 1 ELSE 0)
               ELSE occurrences(text, Head(words)))
         + sumOver(Tail(words), text, exact)

\* calculateRelevance, lines 176-239
calculateRelevance(content, query) ==
    IF query = <<>> THEN Half
    ELSE LET queryWords   == splitWords(query, "")
             penalties    == Cardinality({p \in disclaimerPatterns : textIncludes(content, p)})
             boosts       == Cardinality({p \in businessPatterns : textIncludes(content, p)})
             score        == boosts * 3 - penalties * 5 + sumOver(queryWords, content, FALSE)
             exactMatches == sumOver(queryWords, content, TRUE)
             num          == score + exactMatches * 2
             den          == Len(queryWords) * 10
         IN  Fraction(IF num < 0 THEN 0 ELSE IF num > den THEN den ELSE num, den)

\* the four patterns of lines 75-78, in the order they are tried
sectionPatterns == <<"markdown", "capitals", "numbered", "colon">>

\* the piece is a header of the pattern's kind
isHeader(pattern, piece) ==
    \/ pattern = "markdown" /\ piece \in MarkdownHeaders
    \/ pattern = "capitals" /\ piece \in CapsHeaders

\* the first index from i that holds a newline, or the length plus one
RECURSIVE lineEnd(_, _)
lineEnd(s, i) == IF i <= Len(s) /\ s[i] # NL THEN lineEnd(s, i + 1) ELSE i

\* the first index from i that holds neither whitespace nor capitals
RECURSIVE capitalsEnd(_, _)
capitalsEnd(s, i) ==
    IF i <= Len(s) /\ s[i] \in Whitespace \cup CapsHeaders
    THEN capitalsEnd(s, i + 1)
    ELSE i

\* The last index of the match of the pattern that starts at i, or 0.
\*   /\n\s*#{1,6}\s+.+/ runs to the end of the header's line;
\*   /\n\s*[A-Z][A-Z\s]{2,}\n/ runs, greedily, to the last newline of the
\*   capitals and whitespace that follow the header.
matchEnd(s, i, pattern) ==
    IF ~(i <= Len(s) /\ s[i] = NL) THEN 0
    ELSE LET j == whitespaceEnd(s, i + 1)
         IN  IF ~(j <= Len(s) /\ isHeader(pattern, s[j])) THEN 0
             ELSE IF pattern = "markdown" THEN lineEnd(s, j + 1) - 1
             ELSE IF newlinesIn(s, j + 1, capitalsEnd(s, j + 1)) = 0 THEN 0
             ELSE lastNewline(s, j + 1, capitalsEnd(s, j + 1))

\* content.match(pattern) with the g flag, lines 82 and 277: the matched
\* texts from left to right, none overlapping another
RECURSIVE match(_, _, _)
match(s, i, pattern) ==
    IF i > Len(s) THEN <<>>
    ELSE IF matchEnd(s, i, pattern) > 0
         THEN <<SubSeq(s, i, matchEnd(s, i, pattern))>>
              \o match(s, matchEnd(s, i, pattern) + 1, pattern)
         ELSE match(s, i + 1, pattern)

\* content.indexOf(sub, from), line 284, counting from 1; 0 when not found
indexOf(s, sub, from) ==
    LET at == {k \in from..(Len(s) - Len(sub) + 1) : SubSeq(s, k, k + Len(sub) - 1) = sub}
    IN  IF at = {} THEN 0 ELSE CHOOSE k \in at : \A m \in at : k <= m

\* the loop of lines 283-289
RECURSIVE splitLoop(_, _, _, _)
splitLoop(content, matches, lastIndex, sections) ==
    IF matches = <<>> THEN [sections |-> sections, lastIndex |-> lastIndex]
    ELSE LET matchIndex == indexOf(content, Head(matches), lastIndex)
         IN  splitLoop(content, Tail(matches), matchIndex,
                       IF matchIndex > lastIndex
                       THEN Append(sections, trim(SubSeq(content, lastIndex, matchIndex - 1)))
                       ELSE sections)

\* splitByPattern, lines 276-297
splitByPattern(content, pattern) ==
    LET matches == match(content, 1, pattern)
    IN  IF matches = <<>> THEN <<content>>
        ELSE LET r   == splitLoop(content, matches, 1, <<>>)
                 all == IF r.lastIndex <= Len(content)
                        THEN Append(r.sections,
                                    trim(SubSeq(content, r.lastIndex, Len(content))))
                        ELSE r.sections
             IN  SelectSeq(all, LAMBDA x : Len(x) > minSectionLength)

\* lines 80-87: the sections of the first pattern that matches more than once
RECURSIVE initialSections(_, _)
initialSections(content, patterns) ==
    IF patterns = <<>> THEN <<content>>
    ELSE IF Len(match(content, 1, Head(patterns))) > 1
         THEN splitByPattern(content, Head(patterns))
         ELSE initialSections(content, Tail(patterns))

\* lines 111-117
disclaimerCount(section) ==
    Cardinality({k \in disclaimerKeywords : textIncludes(section, k)})

businessCount(section) ==
    Cardinality({k \in businessKeywords : textIncludes(section, k)})

\* a filter that keeps every section with a business word
shouldKeep_AnyBusiness(b, d) == b >= 1

\* line 121
shouldKeep(b, d) == b >= 2 \/ (b >= 1 /\ d < 3)

\* the filter of lines 92-129
keywordFilter(sections) ==
    SelectSeq(sections, LAMBDA x : shouldKeep(businessCount(x), disclaimerCount(x)))

\* splitBySections, lines 70-141
splitBySections(content) ==
    SelectSeq(keywordFilter(initialSections(content, sectionPatterns)),
              LAMBDA x : Len(trim(x)) > minSectionLength)

\* the properties a chunk object has are named in fields; a property it
\* lacks reads as undefined
Chunk(content, relevance, type) ==
    [ content |-> content, relevance |-> relevance, type |-> type,
      originalLength |-> 0, enhancedLength |-> 0,
      fields |-> {"content", "relevance"} \cup (IF type = "" THEN {} ELSE {"type"}) ]

\* content.split(/\n\s*\n/), line 145: a separator runs from a newline to
\* the last newline of the whitespace that follows it
RECURSIVE split(_, _, _)
split(s, i, paragraph) ==
    IF i > Len(s) THEN <<paragraph>>
    ELSE IF s[i] = NL /\ newlinesIn(s, i, whitespaceEnd(s, i)) >= 2
         THEN <<paragraph>> \o split(s, lastNewline(s, i, whitespaceEnd(s, i)) + 1, <<>>)
         ELSE split(s, i + 1, Append(paragraph, s[i]))

\* the loop of lines 149-162
RECURSIVE pack(_, _, _)
pack(paragraphs, currentChunk, chunks) ==
    IF paragraphs = <<>> THEN [chunks |-> chunks, currentChunk |-> currentChunk]
    ELSE IF Len(currentChunk \o Head(paragraphs)) <= maxChunkSize
         THEN pack(Tail(paragraphs),
                   currentChunk \o (IF currentChunk # <<>> THEN <<NL, NL>> ELSE <<>>)
                                \o Head(paragraphs),
                   chunks)
         ELSE pack(Tail(paragraphs), Head(paragraphs),
                   IF currentChunk # <<>>
                   THEN Append(chunks, Chunk(trim(currentChunk),
                                             calculateRelevance(currentChunk, <<>>),
                                             "paragraph"))
                   ELSE chunks)

\* splitByParagraphs, lines 144-173
splitByParagraphs(content) ==
    LET r == pack(split(content, 1, <<>>), <<>>, <<>>)
    IN  IF trim(r.currentChunk) # <<>>
        THEN Append(r.chunks, Chunk(trim(r.currentChunk),
                                    calculateRelevance(r.currentChunk, <<>>),
                                    "paragraph"))
        ELSE r.chunks

\* chunks.sort((a, b) => b.relevance - a.relevance), line 48: x goes behind
\* the chunks that are no less relevant (the sort is stable)
RECURSIVE insertByRelevance(_, _)
insertByRelevance(sorted, x) ==
    IF sorted = <<>> THEN <<x>>
    ELSE IF fractionLess(Head(sorted).relevance, x.relevance)
         THEN <<x>> \o sorted
         ELSE <<Head(sorted)>> \o insertByRelevance(Tail(sorted), x)

RECURSIVE sortByRelevance(_, _)
sortByRelevance(chunks, sorted) ==
    IF chunks = <<>> THEN sorted
    ELSE sortByRelevance(Tail(chunks), insertByRelevance(sorted, Head(chunks)))

\* content.slice(-overlapSize) and content.slice(0, overlapSize), lines 253, 260
sliceEnd(s, n)   == IF Len(s) <= n THEN s ELSE SubSeq(s, Len(s) - n + 1, Len(s))
sliceStart(s, n) == IF Len(s) <= n THEN s ELSE SubSeq(s, 1, n)

\* lines 248-262: the content of chunk i with its neighbours' text attached
enhancedContent(chunks, i) ==
    LET withPrevious ==
            IF i > 1
            THEN <<"[Previous context: ">> \o sliceEnd(chunks[i - 1].content, overlapSize)
                 \o <<"]", NL, NL>> \o chunks[i].content
            ELSE chunks[i].content
    IN  IF i < Len(chunks)
        THEN withPrevious \o <<NL, NL, "[Next context: ">>
             \o sliceStart(chunks[i + 1].content, overlapSize) \o <<"]">>
        ELSE withPrevious

\* addOverlap, lines 242-273
addOverlap(chunks) ==
    IF Len(chunks) <= 1 THEN chunks
    ELSE [ i \in 1..Len(chunks) |->
             [ chunks[i] EXCEPT
                 !.content        = enhancedContent(chunks, i),
                 !.originalLength = Len(chunks[i].content),
                 !.enhancedLength = Len(enhancedContent(chunks, i)),
                 !.fields         = @ \cup {"originalLength", "enhancedLength"} ] ]

\* a test that sends a content of exactly maxChunkSize to the splitting
withinLimit_Strict(content) == Len(content) < maxChunkSize

\* line 16
withinLimit(content) == Len(content) <= maxChunkSize

\* the loop of lines 30-45
RECURSIVE chunksOf(_, _)
chunksOf(sections, query) ==
    IF sections = <<>> THEN <<>>
    ELSE (IF Len(Head(sections)) <= maxChunkSize
          THEN <<Chunk(Head(sections), calculateRelevance(Head(sections), query),
                       "section")>>
          ELSE splitByParagraphs(Head(sections)))
         \o chunksOf(Tail(sections), query)

\* chunk.relevance > -0.5, line 52
aboveThreshold(chunk) == 2 * chunk.relevance.num > 0 - chunk.relevance.den

\* chunkContent, lines 13-66: what it returns, with the sections it started
\* from, those the keyword filter kept, the chunks in the order of line 48
\* and the chunks it handed to addOverlap
chunkContent(content, query) ==
    IF withinLimit(content)
    THEN [ result   |-> <<Chunk(content, calculateRelevance(content, query), "")>>,
           sections |-> <<>>, kept |-> <<>>, sorted |-> <<>>, chosen |-> <<>>,
           multi |-> FALSE ]
    ELSE LET sections       == splitBySections(content)
             chunks         == sortByRelevance(chunksOf(sections, query), <<>>)
             filteredChunks == SelectSeq(chunks, aboveThreshold)
             chosen         == IF filteredChunks = <<>>
                               THEN sliceStart(chunks, 2)
                               ELSE filteredChunks
         IN  [ result   |-> addOverlap(chosen),
               sections |-> initialSections(content, sectionPatterns),
               kept     |-> keywordFilter(initialSections(content, sectionPatterns)),
               sorted   |-> chunks, chosen |-> chosen, multi |-> TRUE ]

\* no call of the processor made yet, and no content at hand
NoChunkCall ==
    [ op |-> "none", content |-> <<>>, query |-> <<>>, result |-> <<>>,
      sections |-> <<>>, kept |-> <<>>, sorted |-> <<>>, chosen |-> <<>>,
      multi |-> FALSE, before |-> <<>> ]

\* the record of a chunkContent call that returned r
chunkCallOf(content, query, r) ==
    [ op |-> "chunkContent", content |-> content, query |-> query,
      result |-> r.result, sections |-> r.sections, kept |-> r.kept,
      sorted |-> r.sorted,
      chosen |-> r.chosen, multi |-> r.multi, before |-> <<>> ]

\* chunkContent(content, query) on the content and the query at hand
ChunkContent ==
    /\ chunker.op = "none"
    /\ chunker' = chunkCallOf(chunker.content, chunker.query,
                              chunkContent(chunker.content, chunker.query))

\* addOverlap(chunks) on the list the last chunkContent returned
AddOverlap ==
    /\ chunker.op = "chunkContent"
    /\ chunker' = [chunker EXCEPT !.op = "addOverlap",
                                  !.before = chunker.result,
                                  !.result = addOverlap(chunker.result)]

(***************************************************************************)
(* Debounce: PerformanceUtils.debounce (src/unnamed/part_006) and          *)
(* EditorManager.debounce (src/js/modules/ui/EditorManager.js).            *)
(* The event loop keeps the timers that setTimeout made and that have      *)
(* neither fired nor been cleared; a timer fires no earlier than its       *)
(* delay, and may fire later.  Delays are in ticks of the loop's clock:    *)
(* the editor's 800 ms are 3 ticks, the title's 500 ms are 2.              *)
(* The fields lastCall, ran, runsSinceCall and calls record what happened  *)
(* and are read by no operation.                                           *)
(***************************************************************************)
NoTimer == 0

EditorKeys == {"editor", "title"}
Owners == {"executedFunction"} \cup EditorKeys
delayOf == [editor |-> 3, title |-> 2]

NoRun == [at |-> 0, args |-> "none"]

setTimeout(d, owner, args, delay) ==
    [d EXCEPT !.timers = @ \cup {[id |-> d.nextId, due |-> d.clock + delay,
                                  owner |-> owner, args |-> args]},
              !.nextId = @ + 1]

clearTimeout(d, id) == [d EXCEPT !.timers = {t \in @ : t.id # id}]

called(d, owner, args) ==
    [d EXCEPT !.lastCall[owner] = [at |-> d.clock, args |-> args],
              !.ran[owner] = NoRun,
              !.runsSinceCall[owner] = 0,
              !.calls = @ + 1]

func(d, owner, args) ==
    [d EXCEPT !.ran[owner] = [at |-> d.clock, args |-> args],
              !.runsSinceCall[owner] = @ + 1]

\* executedFunction without its clearTimeout
executedFunction_NoClear(d, args) ==
    [setTimeout(d, "executedFunction", args, d.wait) EXCEPT !.timeout = d.nextId]

\* the function PerformanceUtils.debounce(func, wait) returns
executedFunction(d, args) ==
    LET cleared == clearTimeout(d, d.timeout)
    IN  [setTimeout(cleared, "executedFunction", args, d.wait)
            EXCEPT !.timeout = cleared.nextId]

\* the timer callback of executedFunction
later(d, args) == func(clearTimeout(d, d.timeout), "executedFunction", args)

\* EditorManager.debounce(key, func, delay); args stands for the closure func
debounce(d, key, args, delay) ==
    LET cleared == IF d.debounceTimers[key] # NoTimer
                   THEN clearTimeout(d, d.debounceTimers[key])
                   ELSE d
    IN  [setTimeout(cleared, key, args, delay)
            EXCEPT !.debounceTimers[key] = cleared.nextId]

NoDebounce ==
    [ clock |-> 0, timers |-> {}, nextId |-> 1, wait |-> 1,
      timeout |-> NoTimer,
      debounceTimers |-> [k \in EditorKeys |-> NoTimer],
      lastCall |-> [o \in Owners |-> NoRun],
      ran |-> [o \in Owners |-> NoRun],
      runsSinceCall |-> [o \in Owners |-> 0],
      calls |-> 0 ]

MaxClock == 4

\* as many calls as there are debounced functions
MaxCalls == Cardinality(Owners)

CallExecutedFunction(args) ==
    /\ debouncer.calls < MaxCalls
    /\ debouncer.clock + debouncer.wait <= MaxClock
    /\ debouncer' = executedFunction(called(debouncer, "executedFunction", args), args)

CallDebounce(key, args) ==
    /\ debouncer.calls < MaxCalls
    /\ debouncer.clock + delayOf[key] <= MaxClock
    /\ debouncer' = debounce(called(debouncer, key, args), key, args, delayOf[key])

\* the event loop runs a timer that is due: the timer is gone, its callback runs
FireTimer(tm) ==
    /\ tm \in debouncer.timers
    /\ tm.due <= debouncer.clock
    /\ LET fired == [debouncer EXCEPT !.timers = @ \ {tm}]
       IN  debouncer' = IF tm.owner = "executedFunction"
                        THEN later(fired, tm.args)
                        ELSE func(fired, tm.owner, tm.args)

ClockTick ==
    /\ debouncer.clock < MaxClock
    /\ debouncer' = [debouncer EXCEPT !.clock = @ + 1]

(***************************************************************************)
(* RealtimeClient (src/js/realtimeClient.js) and EnhancedRealtimeClient    *)
(* (src/js/config/constants.js): connect, disconnect and scheduleReconnect *)
(* are the same code in both.                                              *)
(* The browser keeps the sockets that new WebSocket made and that have not *)
(* delivered their close event, and the timers scheduleReconnect set.      *)
(* Every socket carries the handlers connect gave it, which act on the     *)
(* client whether or not the client's ws field still names that socket.    *)
(* Delays are in ticks of one reconnectDelay (1000 ms).  The fields        *)
(* sinceOpen, idle and last record what happened and are read by no        *)
(* operation.                                                              *)
(***************************************************************************)
maxReconnectAttempts == 5
reconnectDelay == 1
NormalClosure == 1000
AbnormalClosure == 1006
GoingAway == 1001

RECURSIVE pow(_, _)
pow(b, e) == IF e = 0 THEN 1 ELSE b * pow(b, e - 1)

NoEvent == [op |-> "none", code |-> 0, scheduled |-> FALSE, attempts |-> 0]

NewClient ==
    [ ws |-> 0, isConnected |-> FALSE, reconnectAttempts |-> 0,
      sockets |-> {}, nextSocket |-> 1, timers |-> {}, nextTimer |-> 1, clock |-> 0,
      sinceOpen |-> 0, idle |-> FALSE, ops |-> 0, last |-> NoEvent ]

\* connect(), lines 28-62: a new socket, connecting; the socket ws named
\* before is neither closed nor forgotten by the browser
connect(c) ==
    [c EXCEPT !.ws = c.nextSocket,
              !.sockets = @ \cup {[id |-> c.nextSocket, state |-> "connecting"]},
              !.nextSocket = @ + 1]

\* ws.close(1000, ...) on socket id: a socket that is connecting or open
\* starts closing, a socket that is closing or gone is left alone
close(c, id) ==
    [c EXCEPT !.sockets =
        {IF s.id = id /\ s.state \in {"connecting", "open"}
         THEN [id |-> id, state |-> IF s.state = "open" THEN "closing"
                                                        ELSE "failing"]
         ELSE s : s \in @}]

\* disconnect(), lines 66-73
disconnect(c) ==
    IF c.ws # 0
    THEN [close(c, c.ws) EXCEPT !.ws = 0, !.isConnected = FALSE]
    ELSE c

\* scheduleReconnect with a delay that grows by one reconnectDelay a time
scheduleReconnect_Linear(c) ==
    [c EXCEPT !.reconnectAttempts = @ + 1,
              !.sinceOpen = @ + 1,
              !.nextTimer = @ + 1,
              !.timers = @ \cup {[id |-> c.nextTimer, n |-> c.sinceOpen + 1, at |-> c.clock,
                                  due |-> c.clock + reconnectDelay * (c.reconnectAttempts + 1)]}]

\* scheduleReconnect(), lines 75-85
scheduleReconnect(c) ==
    [c EXCEPT !.reconnectAttempts = @ + 1,
              !.sinceOpen = @ + 1,
              !.nextTimer = @ + 1,
              !.timers = @ \cup {[id |-> c.nextTimer, n |-> c.sinceOpen + 1, at |-> c.clock,
                                  due |-> c.clock + reconnectDelay * pow(2, c.reconnectAttempts)]}]

\* the timer callback, lines 80-84
reconnect(c) == IF ~c.isConnected THEN connect(c) ELSE c

\* ws.onopen, lines 33-38
onopen(c) ==
    [c EXCEPT !.isConnected = TRUE, !.reconnectAttempts = 0, !.sinceOpen = 0]

\* the test of line 50 with the attempts limit left out
shouldReconnect_Unlimited(c, code) == code # NormalClosure

\* line 50
shouldReconnect(c, code) ==
    code # NormalClosure /\ c.reconnectAttempts < maxReconnectAttempts

\* ws.onclose, lines 44-53
onclose(c, code) ==
    LET closed == [c EXCEPT !.isConnected = FALSE]
    IN  IF shouldReconnect(closed, code) THEN scheduleReconnect(closed) ELSE closed

eventOf(c, op, code, after) ==
    [after EXCEPT !.last = [op |-> op, code |-> code,
                            scheduled |-> after.timers # c.timers,
                            attempts |-> c.sinceOpen]]

MaxClientOps == 3

\* the sockets of a first connection, of every reconnect after it, and one more
MaxSockets == maxReconnectAttempts + 2

\* the application calls connect()
Connect ==
    /\ client.ops < MaxClientOps
    /\ client.nextSocket <= MaxSockets
    /\ client' = [eventOf(client, "connect", 0, connect(client))
                     EXCEPT !.ops = @ + 1, !.idle = FALSE]

\* the visibilitychange listener of autoConnect, lines 287-292, with the
\* page visible
VisibilityChange ==
    /\ client.ops < MaxClientOps
    /\ client.nextSocket <= MaxSockets
    /\ ~client.isConnected
    /\ client' = [eventOf(client, "visibilitychange", 0, connect(client))
                     EXCEPT !.ops = @ + 1]

\* the application calls disconnect()
Disconnect ==
    /\ client.ops < MaxClientOps
    /\ client' = [eventOf(client, "disconnect", 0, disconnect(client))
                     EXCEPT !.ops = @ + 1, !.idle = TRUE]

\* a connecting socket opens: its open event
SocketOpens(s) ==
    /\ s \in client.sockets /\ s.state = "connecting"
    /\ client' = eventOf(client, "open", 0,
                         onopen([client EXCEPT !.sockets =
                                    (@ \ {s}) \cup {[id |-> s.id, state |-> "open"]}]))

\* a socket is closed: its close event with the code the browser reports.
\* A connection that fails before it opens, or that close() ended before it
\* opened, reports 1006; a close() of an open socket reports 1000 when the
\* closing handshake completes and 1006 when the connection is lost first;
\* an open socket the server or the network ends reports any code.
closeCodes(s) ==
    CASE s.state \in {"connecting", "failing"} -> {AbnormalClosure}
      [] s.state = "closing" -> {NormalClosure, AbnormalClosure}
      [] s.state = "open" -> {NormalClosure, GoingAway, AbnormalClosure}

SocketCloses(s, code) ==
    /\ s \in client.sockets
    /\ code \in closeCodes(s)
    /\ client' = eventOf(client, "close", code,
                         onclose([client EXCEPT !.sockets = @ \ {s}], code))

\* a reconnect timer that is due fires
ReconnectTimer(tm) ==
    /\ tm \in client.timers
    /\ tm.due <= client.clock
    /\ ~client.isConnected => client.nextSocket <= MaxSockets
    /\ client' = eventOf(client, "timer", 0,
                         reconnect([client EXCEPT !.timers = @ \ {tm}]))

\* time passes until the next reconnect timer is due
ClientClock ==
    /\ client.timers # {}
    /\ \A tm \in client.timers : tm.due > client.clock
    /\ client' = [client EXCEPT
                     !.clock = CHOOSE d \in {tm.due : tm \in client.timers} :
                                  \A tm \in client.timers : d <= tm.due]

(***************************************************************************)
(* Components at rest                                                      *)
(***************************************************************************)
\* no cache call in flight; enoent tells that an fs call of the task found
\* its file gone
IdleRace ==
    [ get     |-> [pc |-> "idle", key |-> "", outcome |-> "none", entry |-> NoEntry,
                   enoent |-> FALSE],
      put     |-> [pc |-> "idle", key |-> "", data |-> NoEntry, outcome |-> "none"],
      expired |-> [pc |-> "idle", pending |-> {}, cur |-> "", outcome |-> "none",
                   enoent |-> FALSE],
      old     |-> [pc |-> "idle", pending |-> {}, cur |-> "", outcome |-> "none",
                   enoent |-> FALSE] ]

\* what a route handler has yet to fill in
IdleRequest ==
    [ pc |-> "idle", route |-> "", userId |-> "", prompt |-> "",
      arrived |-> 0, completed |-> 0,
      had |-> FALSE, successBefore |-> 0, errorBefore |-> 0,
      threw |-> FALSE, allowed |-> FALSE, looked |-> FALSE, hit |-> FALSE,
      chunksLeft |-> 0, text |-> "", aiCalls |-> 0, aiFailures |-> 0,
      status |-> 0, body |-> "", cached |-> FALSE ]

Slots == {1, 2}
IdleOrch == [reqs |-> [r \in Slots |-> IdleRequest], events |-> 0]

OtherInit ==
    /\ race = IdleRace
    /\ orch = IdleOrch
    /\ manager = NewManager
    /\ promptCall = NoPromptCall
    /\ chunker = NoChunkCall
    /\ debouncer = NoDebounce
    /\ client = NewClient

(***************************************************************************)
(* Specifications                                                          *)
(***************************************************************************)
\* The limiter, constructed on one of the persisted files or on none.
Init ==
    /\ now = StartNow
    /\ ticks = 0
    /\ \E file \in PersistedFiles \cup {NoFile} : LimiterInit(file)
    /\ CacheInit
    /\ OtherInit

Tick == \E d \in LimiterDeltas : Advance(d) /\ UNCHANGED <<limiterVars, cacheVars, otherVars>>

Next ==
    \/ \E u \in Users : IsRequestAllowed(u) /\ UNCHANGED <<now, ticks, cacheVars, otherVars>>
    \/ \E u \in Users, success \in BOOLEAN :
            RecordRequest(u, success) /\ UNCHANGED <<now, ticks, cacheVars, otherVars>>
    \/ \E u \in Users : GetUserLimit(u) /\ UNCHANGED <<now, ticks, cacheVars, otherVars>>
    \/ \E u \in Users : ResetRateLimits(u) /\ UNCHANGED <<now, ticks, cacheVars, otherVars>>
    \/ Tick

Spec == Init /\ [][Next]_vars

\* The cache, constructed on an empty cache directory.
CacheSpecInit ==
    /\ now = StartNow
    /\ ticks = 0
    /\ LimiterInit(NoFile)
    /\ CacheInit
    /\ OtherInit

CacheTick == \E d \in CacheDeltas : Advance(d) /\ UNCHANGED <<limiterVars, cacheVars, otherVars>>

CacheNext ==
    \/ \E c \in Contents, q \in Queries :
            GetCachedContent(c, q) /\ UNCHANGED <<now, ticks, limiterVars, otherVars>>
    \/ \E a \in PutArgs, writeOk \in BOOLEAN :
            CacheContent(a[1], a[2], a[3], writeOk) /\ UNCHANGED <<now, ticks, limiterVars, otherVars>>
    \/ \E keys \in KeyLists : PreloadContent(keys) /\ UNCHANGED <<now, ticks, limiterVars, otherVars>>
    \/ CacheTick

CacheSpec == CacheSpecInit /\ [][CacheNext]_vars

(***************************************************************************)
(* Claims about the rate limiter (checked under Spec)                      *)
(***************************************************************************)
\* The last call was an isRequestAllowed that returned a decision.
Decided == call.op = "isRequestAllowed" /\ call.outcome = "returned"
Denied  == Decided /\ ~call.allowed
\* The last call recorded an outcome for a user that had a record.
Recorded ==
    /\ call.op \in {"isRequestAllowed", "recordRequest"}
    /\ call.outcome = "returned"
    /\ call.had
\* Milliseconds between the record's window start (lastRequest) and the call
Elapsed == call.at - call.before.lastRequest
\* The base request counts of section 4.3 of the specification
TierQuota(tier) ==
    CASE tier = "newUser"    -> 5
      [] tier = "regular"    -> 15
      [] tier = "power"      -> 25
      [] tier = "enterprise" -> 50

\* C1: at health multiplier 1.0, a call made within the window (no more
\* than windowDuration after the record's window start) is allowed exactly
\* when fewer requests than the tier's base count are counted in the
\* window; an allowed call raises the count by one and reports what is
\* left of the base count, a denied call leaves the count alone.
C1_BaseQuotaPerWindow ==
    (Decided /\ call.limit.healthMultiplier = 1000 /\ Elapsed <= 60000) =>
        /\ call.allowed <=> call.before.requests < TierQuota(call.before.tier)
        /\ call.allowed =>
              /\ userLimits[call.userId].requests = call.before.requests + 1
              /\ call.remaining = TierQuota(call.before.tier) - (call.before.requests + 1)
        /\ ~call.allowed =>
              userLimits[call.userId].requests = call.before.requests

\* C1 witness: a power user with 25 requests counted is denied the 26th.
C1_Witness ==
    /\ Denied /\ call.limit.healthMultiplier = 1000
    /\ call.before.tier = "power" /\ call.before.requests = 25

C3_Claimed ==
    Denied =>
        /\ call.retryAfter > 0
        /\ (call.retryAfter - 1) * 1000 < 60000 - Elapsed
        /\ 60000 - Elapsed <= call.retryAfter * 1000

\* C3 amended: every denial carries retryAfter >= 0, the time left in the
\* window in whole seconds rounded up; it is 0 exactly at the instant
\* now - windowStartedAt = windowDuration, where the call is still denied.
C3_RetryAfter ==
    Denied =>
        /\ Elapsed <= 60000
        /\ call.retryAfter >= 0
        /\ (call.retryAfter - 1) * 1000 < 60000 - Elapsed
        /\ 60000 - Elapsed <= call.retryAfter * 1000
        /\ call.retryAfter = 0 <=> Elapsed = 60000

C3_Witness == Denied /\ Elapsed = 60000 /\ call.retryAfter = 0

\* C4 as claimed: the first isRequestAllowed for a user without a record
\* creates the record at tier newUser and returns a decision.
C4_Claimed ==
    (call.op = "isRequestAllowed" /\ ~call.had) =>
        /\ call.outcome = "returned"
        /\ call.userId \in DOMAIN userLimits
        /\ call.limit.tier = "newUser"

\* successCount / (successCount + errorCount) >= 0.9, < 0.7
Qualifies(user) ==
    /\ user.successCount + user.errorCount >= 50
    /\ 10 * user.successCount >= 9 * (user.successCount + user.errorCount)
Failing(user) ==
    /\ user.successCount + user.errorCount >= 100
    /\ 10 * user.successCount < 7 * (user.successCount + user.errorCount)

\* C5: a recorded outcome moves a newUser to regular exactly when, with
\* that outcome counted, total requests >= 50 and success rate >= 0.9; no
\* newUser record is ever left in that condition, so the promoting outcome
\* is the first to reach it.
C5_PromotionAtThreshold ==
    /\ \A u \in DOMAIN userLimits :
          userLimits[u].tier = "newUser" => ~Qualifies(userLimits[u])
    /\ (Recorded /\ call.before.tier = "newUser") =>
          /\ userLimits[call.userId].tier \in {"newUser", "regular"}
          /\ userLimits[call.userId].tier = "regular"
                <=> Qualifies(userLimits[call.userId])

\* C5 witness: promoted on the 50th outcome, with 45 successes.
C5_Witness ==
    /\ Recorded /\ call.before.tier = "newUser"
    /\ userLimits[call.userId].tier = "regular"
    /\ userLimits[call.userId].successCount = 45
    /\ userLimits[call.userId].errorCount = 5

\* C6 as claimed: a recorded outcome that finds a non-newUser tier at
\* total requests >= 100 and success rate < 0.7 lowers the tier by exactly
\* one level, and no recorded outcome moves a tier by more than one level.
C6_Claimed ==
    Recorded =>
        LET before == tierIndex(call.before.tier)
            after  == tierIndex(userLimits[call.userId].tier)
        IN  /\ after - before \in {-1, 0, 1}
            /\ (call.before.tier # "newUser" /\ Failing(userLimits[call.userId]))
                  => after = before - 1

(***************************************************************************)
(* Claims about the content cache (checked under CacheSpec)                *)
(***************************************************************************)
\* The last call was a getCachedContent of a key that a cacheContent stored.
GotStored == cacheCall.op = "get" /\ cacheCall.key \in DOMAIN stored
\* The entry that cacheContent last stored under the key of the last call
StoredEntry == stored[cacheCall.key]

\* C7: a getCachedContent made before expiresAt of the entry that the last
\* successful cacheContent stored under its key is a hit and returns that
\* entry's payload, whatever other keys were stored in between and whether
\* or not the entry is still in the in-memory tier.
C7_GetAfterPut ==
    (GotStored /\ cacheCall.at < StoredEntry.metadata.expiresAt) =>
        /\ cacheCall.hit
        /\ cacheCall.entry.content = StoredEntry.content

\* C7 witness: the entry was evicted from memory, time has passed, and the
\* get is served from the persisted tier.
C7_Witness ==
    /\ GotStored /\ cacheCall.hit /\ cacheCall.tier = "disk"
    /\ cacheCall.at > StoredEntry.metadata.timestamp
    /\ cacheCall.at < StoredEntry.metadata.expiresAt
    /\ cacheCall.entry.content = StoredEntry.content

\* C8 as claimed: a getCachedContent made at or after expiresAt of the
\* stored entry is a miss, whichever tier holds the entry.
C8_Claimed ==
    (GotStored /\ cacheCall.at >= StoredEntry.metadata.expiresAt) => ~cacheCall.hit

\* The keys of a memory tier, in Map order
keySeq(mem) == [i \in 1..Len(mem) |-> mem[i].key]
without(keys, K) == SelectSeq(keys, LAMBDA k : k \notin K)
isSuffix(s, t) == \E n \in 0..Len(t) : s = SubSeq(t, n + 1, Len(t))
\* Of the keys the call does not insert, those left are the latest inserted,
\* in their old order.
OldestGoFirst(K) ==
    isSuffix(without(keySeq(memoryCache'), K), without(keySeq(memoryCache), K))

\* The step is a getCachedContent call: it alone counts a hit or a miss.
GetStep == cacheCall'.op = "get" /\ cacheStats' # cacheStats
\* The step is a cacheContent call that stored its entry.
PutStep == cacheCall'.op = "put" /\ cacheStats' # cacheStats

\* The step is a preloadContent call that loaded something.
PreloadStep == cacheCall'.op = "preload" /\ memoryCache' # memoryCache

C10_PersistedLookup ==
    [][ GetStep =>
          LET k == cacheCall'.key
          IN  /\ (k \notin memKeys(memoryCache) /\ k \in DOMAIN cacheFiles) =>
                    IF now < cacheFiles[k].value.metadata.expiresAt
                    THEN /\ cacheCall'.hit
                         /\ cacheCall'.entry = cacheFiles[k].value
                         /\ k \in memKeys(memoryCache')
                         /\ memData(memoryCache', k) = cacheFiles[k].value
                         /\ cacheFiles' = cacheFiles
                    ELSE /\ ~cacheCall'.hit
                         /\ k \notin DOMAIN cacheFiles'
              /\ k \in memKeys(memoryCache) =>
                    cacheCall'.hit /\ cacheCall'.tier = "memory" ]_vars

\* C10 witness: the expired file of a stored key was found on a memory miss
\* and deleted.
C10_Witness ==
    /\ GotStored /\ ~cacheCall.hit
    /\ cacheCall.at >= StoredEntry.metadata.expiresAt
    /\ cacheCall.key \notin DOMAIN cacheFiles
    /\ cacheCall.key \notin memKeys(memoryCache)
    /\ cacheCall.key \in DOMAIN cacheIndex.entries

\* C11 as claimed: after a cacheContent whose file write failed, the entry
\* of that call is held by the in-memory tier.
C11_Claimed ==
    (cacheCall.op = "put" /\ ~cacheCall.ok) =>
        /\ cacheCall.key \in memKeys(memoryCache)
        /\ memData(memoryCache, cacheCall.key).metadata.timestamp = cacheCall.at

(***************************************************************************)
(* ContentCache with maintenance and faults: a cache directory left by an  *)
(* earlier run, unreadable files, failed index writes, clearExpiredCache   *)
(* and clearAllCache                                                       *)
(***************************************************************************)
\* the pairs used here: two keys, one payload each
FaultArgs == {<<"a", "c", "r1">>, <<"a|b", "c", "r1">>}
\* clock advances used here: one passes the expiry of the file found at
\* construction, two pass the expiry of an entry stored at construction
FaultDeltas == {ttlMs \div 2 + 1}

\* the entry of ("a", "c") written half a TTL before construction
OldEntry == cacheDataOf("a", "c", "r0", StartNow - ttlMs \div 2)
OldKey == generateCacheKey("a", "c")
\* ./cache as an earlier run left it: the file of one key and its index line
OldDirFiles == writeFile(<<>>, OldKey, jsonFile(OldEntry, StartNow - ttlMs \div 2))
OldDirIndex == updateCacheIndex([exists |-> FALSE, entries |-> <<>>], OldKey, OldEntry)

\* constructor on an empty or on a used cache directory: memory starts empty
CacheInitOn(used) ==
    /\ memoryCache = <<>>
    /\ cacheFiles = IF used THEN OldDirFiles ELSE <<>>
    /\ cacheIndex = IF used THEN OldDirIndex ELSE [exists |-> FALSE, entries |-> <<>>]
    /\ cacheStats = [hits |-> 0, misses |-> 0, saves |-> 0]
    /\ stored = <<>>
    /\ cacheCall = NoCacheCall

\* cacheContent when fs.writeFileSync of index.json throws inside
\* updateCacheIndex (lines 158-162): the file and the memory entry are
\* written, the index is left as it was, the call returns true
CacheContentIndexFailed(content, query, processedChunks) ==
    LET k    == generateCacheKey(content, query)
        data == cacheDataOf(content, query, processedChunks, now)
    IN  /\ cacheOps < MaxCacheOps
        /\ cacheFiles' = writeFile(cacheFiles, k, jsonFile(data, now))
        /\ memoryCache' = addToMemoryCache(memoryCache, k, data)
        /\ cacheStats' = [cacheStats EXCEPT !.saves = @ + 1]
        /\ stored' = [x \in DOMAIN stored \cup {k} |->
                         IF x = k THEN data ELSE stored[x]]
        /\ cacheCall' = [NoCacheCall EXCEPT !.op = "put", !.key = k, !.at = now,
                                            !.ok = TRUE]
        /\ UNCHANGED cacheIndex

\* the file of key k becomes unreadable as JSON (truncated or overwritten
\* outside the cache)
CorruptFile(k) ==
    /\ k \in DOMAIN cacheFiles
    /\ cacheFiles[k].text = "json"
    /\ cacheFiles' = [cacheFiles EXCEPT ![k].text = "garbage"]
    /\ UNCHANGED <<memoryCache, cacheIndex, cacheStats, stored, cacheCall>>

\* the keys clearExpiredCache unlinks: the index lines with now > expiresAt
expiredByIndex(index, t) ==
    IF index.exists
    THEN {k \in DOMAIN index.entries :
            index.entries[k].expiresAt # 0 /\ t > index.entries[k].expiresAt}
    ELSE {}

\* clearExpiredCache
ClearExpiredCache ==
    /\ cacheFiles' = [x \in DOMAIN cacheFiles \ expiredByIndex(cacheIndex, now) |->
                         cacheFiles[x]]
    /\ cacheCall' = [NoCacheCall EXCEPT !.op = "clearExpired", !.at = now]
    /\ UNCHANGED <<memoryCache, cacheIndex, cacheStats, stored>>

\* clearAllCache: every .json file of the directory, index.json among them,
\* the memory tier and the counters
ClearAllCache ==
    /\ cacheFiles' = <<>>
    /\ cacheIndex' = [exists |-> FALSE, entries |-> <<>>]
    /\ memoryCache' = <<>>
    /\ cacheStats' = [hits |-> 0, misses |-> 0, saves |-> 0]
    /\ stored' = <<>>
    /\ cacheCall' = [NoCacheCall EXCEPT !.op = "clearAll", !.at = now, !.ok = TRUE]

CacheFaultInit ==
    /\ now = StartNow
    /\ ticks = 0
    /\ LimiterInit(NoFile)
    /\ \E used \in BOOLEAN : CacheInitOn(used)
    /\ OtherInit

CacheFaultTick == \E d \in FaultDeltas : Advance(d) /\ UNCHANGED <<limiterVars, cacheVars, otherVars>>

CacheFaultNext ==
    \/ \E a \in FaultArgs :
            GetCachedContent(a[1], a[2]) /\ UNCHANGED <<now, ticks, limiterVars, otherVars>>
    \/ \E a \in FaultArgs, writeOk \in BOOLEAN :
            CacheContent(a[1], a[2], a[3], writeOk) /\ UNCHANGED <<now, ticks, limiterVars, otherVars>>
    \/ \E a \in FaultArgs :
            CacheContentIndexFailed(a[1], a[2], a[3]) /\ UNCHANGED <<now, ticks, limiterVars, otherVars>>
    \/ \E k \in Keys : CorruptFile(k) /\ UNCHANGED <<now, ticks, limiterVars, otherVars>>
    \/ ClearExpiredCache /\ UNCHANGED <<now, ticks, limiterVars, otherVars>>
    \/ ClearAllCache /\ UNCHANGED <<now, ticks, limiterVars, otherVars>>
    \/ CacheFaultTick

CacheFaultSpec == CacheFaultInit /\ [][CacheFaultNext]_vars

\* C12: a getCachedContent that misses the in-memory tier and finds a file
\* that does not parse reports a miss, deletes the file and leaves the
\* in-memory tier as it was.
C12_CorruptIsMiss ==
    [][ (GetStep /\ cacheCall'.key \notin memKeys(memoryCache)
                 /\ cacheCall'.key \in DOMAIN cacheFiles
                 /\ cacheFiles[cacheCall'.key].text # "json") =>
            /\ ~cacheCall'.hit
            /\ cacheCall'.entry = NoEntry
            /\ cacheCall'.key \notin DOMAIN cacheFiles'
            /\ memoryCache' = memoryCache
            /\ cacheStats'.misses = cacheStats.misses + 1 ]_vars

\* C12 witness: a get has just missed on the key an earlier run stored, its
\* file is gone before its expiry, and another key sits in memory untouched.
C12_Witness ==
    /\ cacheCall.op = "get" /\ ~cacheCall.hit /\ cacheCall.key = OldKey
    /\ cacheCall.at < OldEntry.metadata.expiresAt
    /\ OldKey \in DOMAIN cacheIndex.entries
    /\ cacheIndex.entries[OldKey].timestamp = OldEntry.metadata.timestamp
    /\ OldKey \notin DOMAIN cacheFiles
    /\ memoryCache # <<>>

\* C13 as claimed: once clearExpiredCache has run, no readable cache file is
\* left whose expiresAt lies before the time of the run.
C13_Claimed ==
    cacheCall.op = "clearExpired" =>
        \A k \in DOMAIN cacheFiles :
            jsonParse(cacheFiles[k]).ok =>
                ~(cacheCall.at > jsonParse(cacheFiles[k]).value.metadata.expiresAt)

(***************************************************************************)
(* ContentCache calls interleaved at the grain of their fs calls: one get, *)
(* one put, clearExpiredCache and clearOldCacheFiles in flight together    *)
(***************************************************************************)
MaxRaceOps == 3          \* counted get and put calls explored
\* clearOldCacheFiles: MAX_AGE
maxAgeMs == 7 * 24 * 60 * 60 * 1000
RaceArgs == {<<"a", "c", "r1">>, <<"a|b", "c", "r1">>}

\* the file of ("a", "c") as a run more than seven days earlier left it
StaleEntry == cacheDataOf("a", "c", "r0", StartNow - maxAgeMs - 1)
StaleDirFiles == writeFile(<<>>, OldKey, jsonFile(StaleEntry, StartNow - maxAgeMs - 1))
StaleDirIndex == updateCacheIndex([exists |-> FALSE, entries |-> <<>>], OldKey, StaleEntry)

\* whether an exception thrown by the fs call at a site is caught inside
\* the method: line 54 and line 67 by the catch of line 70, line 73 by its
\* own try, line 218 by the catch of line 221, statSync of line 334 by the
\* catch of line 351, line 338 by the catch of line 340
caught_BareStat(site) == site # "old.stat"

caught(site) ==
    site \in {"get.read", "get.unlinkExpired", "get.unlinkCorrupt",
              "expired.unlink", "old.stat", "old.unlink"}

raceOps == cacheStats.hits + cacheStats.misses + cacheStats.saves

\* getCachedContent, lines 40-52: the memory lookup and fs.existsSync
RaceGetBegin(content, query) ==
    LET k == generateCacheKey(content, query)
        g == [IdleRace.get EXCEPT !.key = k]
    IN  /\ race.get.pc = "idle"
        /\ raceOps < MaxRaceOps
        /\ IF k \in memKeys(memoryCache)
           THEN /\ cacheStats' = [cacheStats EXCEPT !.hits = @ + 1]
                /\ race' = [race EXCEPT !.get = [g EXCEPT !.outcome = "hit",
                                                 !.entry = memData(memoryCache, k)]]
           ELSE IF k \in DOMAIN cacheFiles
           THEN /\ race' = [race EXCEPT !.get = [g EXCEPT !.pc = "read"]]
                /\ UNCHANGED cacheStats
           ELSE /\ cacheStats' = [cacheStats EXCEPT !.misses = @ + 1]
                /\ race' = [race EXCEPT !.get = [g EXCEPT !.outcome = "miss"]]
        /\ UNCHANGED <<memoryCache, cacheFiles, cacheIndex, stored, cacheCall>>

\* lines 54-64: readFileSync, JSON.parse, isCacheValid
RaceGetRead ==
    LET k == race.get.key
    IN  /\ race.get.pc = "read"
        /\ IF k \notin DOMAIN cacheFiles
           THEN \* ENOENT
                /\ race' = IF caught("get.read")
                           THEN [race EXCEPT !.get.pc = "unlinkCorrupt",
                                             !.get.enoent = TRUE]
                           ELSE [race EXCEPT !.get.pc = "idle", !.get.outcome = "threw",
                                             !.get.enoent = TRUE]
                /\ UNCHANGED <<memoryCache, cacheStats>>
           ELSE LET parsed == jsonParse(cacheFiles[k])
                IN  IF ~parsed.ok
                    THEN /\ race' = [race EXCEPT !.get.pc = "unlinkCorrupt"]
                         /\ UNCHANGED <<memoryCache, cacheStats>>
                    ELSE IF isCacheValid(parsed.value, now)
                    THEN /\ cacheStats' = [cacheStats EXCEPT !.hits = @ + 1]
                         /\ memoryCache' = addToMemoryCache(memoryCache, k, parsed.value)
                         /\ race' = [race EXCEPT !.get.pc = "idle", !.get.outcome = "hit",
                                                 !.get.entry = parsed.value]
                    ELSE /\ race' = [race EXCEPT !.get.pc = "unlinkExpired"]
                         /\ UNCHANGED <<memoryCache, cacheStats>>
        /\ UNCHANGED <<cacheFiles, cacheIndex, stored, cacheCall>>

\* line 67: fs.unlinkSync of the expired file, then lines 77-78
RaceGetUnlinkExpired ==
    LET k == race.get.key
    IN  /\ race.get.pc = "unlinkExpired"
        /\ IF k \in DOMAIN cacheFiles
           THEN /\ cacheFiles' = unlink(cacheFiles, k)
                /\ cacheStats' = [cacheStats EXCEPT !.misses = @ + 1]
                /\ race' = [race EXCEPT !.get.pc = "idle", !.get.outcome = "miss"]
           ELSE /\ race' = IF caught("get.unlinkExpired")
                           THEN [race EXCEPT !.get.pc = "unlinkCorrupt",
                                             !.get.enoent = TRUE]
                           ELSE [race EXCEPT !.get.pc = "idle", !.get.outcome = "threw",
                                             !.get.enoent = TRUE]
                /\ UNCHANGED <<cacheFiles, cacheStats>>
        /\ UNCHANGED <<memoryCache, cacheIndex, stored, cacheCall>>

\* line 73: try { fs.unlinkSync } catch {}, then lines 77-78
RaceGetUnlinkCorrupt ==
    LET k == race.get.key
    IN  /\ race.get.pc = "unlinkCorrupt"
        /\ IF k \in DOMAIN cacheFiles \/ caught("get.unlinkCorrupt")
           THEN /\ cacheFiles' = unlink(cacheFiles, k)
                /\ cacheStats' = [cacheStats EXCEPT !.misses = @ + 1]
                /\ race' = [race EXCEPT !.get.pc = "idle", !.get.outcome = "miss"]
           ELSE /\ race' = [race EXCEPT !.get.pc = "idle", !.get.outcome = "threw"]
                /\ UNCHANGED <<cacheFiles, cacheStats>>
        /\ UNCHANGED <<memoryCache, cacheIndex, stored, cacheCall>>

\* cacheContent, lines 83-98: the cache file is written, or the write throws
\* and the call returns false
RacePutBegin(content, query, processedChunks, writeOk) ==
    LET k    == generateCacheKey(content, query)
        data == cacheDataOf(content, query, processedChunks, now)
    IN  /\ race.put.pc = "idle"
        /\ raceOps < MaxRaceOps
        /\ IF writeOk
           THEN /\ cacheFiles' = writeFile(cacheFiles, k, jsonFile(data, now))
                /\ race' = [race EXCEPT !.put = [pc |-> "mirror", key |-> k,
                                                 data |-> data, outcome |-> "none"]]
           ELSE /\ race' = [race EXCEPT !.put = [pc |-> "idle", key |-> k,
                                                 data |-> data, outcome |-> "false"]]
                /\ UNCHANGED cacheFiles
        /\ UNCHANGED <<memoryCache, cacheIndex, cacheStats, stored, cacheCall>>

\* lines 101-110: the memory entry, the index line, the counter
RacePutFinish ==
    /\ race.put.pc = "mirror"
    /\ memoryCache' = addToMemoryCache(memoryCache, race.put.key, race.put.data)
    /\ cacheIndex' = updateCacheIndex(cacheIndex, race.put.key, race.put.data)
    /\ cacheStats' = [cacheStats EXCEPT !.saves = @ + 1]
    /\ stored' = [x \in DOMAIN stored \cup {race.put.key} |->
                     IF x = race.put.key THEN race.put.data ELSE stored[x]]
    /\ race' = [race EXCEPT !.put.pc = "idle", !.put.outcome = "true"]
    /\ UNCHANGED <<cacheFiles, cacheCall>>

\* clearExpiredCache, lines 205-214: index.json is read once
RaceExpiredBegin ==
    /\ race.expired.pc = "idle"
    /\ race' = [race EXCEPT !.expired =
                  IF expiredByIndex(cacheIndex, now) = {}
                  THEN [IdleRace.expired EXCEPT !.outcome = "done"]
                  ELSE [IdleRace.expired EXCEPT !.pc = "exists",
                                                !.pending = expiredByIndex(cacheIndex, now)]]
    /\ UNCHANGED <<memoryCache, cacheFiles, cacheIndex, cacheStats, stored, cacheCall>>

\* line 217: fs.existsSync of the next expired key's file
RaceExpiredExists ==
    /\ race.expired.pc = "exists"
    /\ \E k \in race.expired.pending :
          race' = [race EXCEPT !.expired =
                     IF k \in DOMAIN cacheFiles
                     THEN [@ EXCEPT !.pc = "unlink", !.cur = k]
                     ELSE IF @.pending = {k}
                     THEN [IdleRace.expired EXCEPT !.outcome = "done"]
                     ELSE [@ EXCEPT !.pending = @ \ {k}]]
    /\ UNCHANGED <<memoryCache, cacheFiles, cacheIndex, cacheStats, stored, cacheCall>>

\* line 218: fs.unlinkSync inside the try of lines 216-223
RaceExpiredUnlink ==
    LET k    == race.expired.cur
        rest == race.expired.pending \ {k}
        gone == race.expired.enoent \/ k \notin DOMAIN cacheFiles
        on   == IF rest = {}
                THEN [IdleRace.expired EXCEPT !.outcome = "done", !.enoent = gone]
                ELSE [race.expired EXCEPT !.pc = "exists", !.pending = rest, !.cur = "",
                                          !.enoent = gone]
    IN  /\ race.expired.pc = "unlink"
        /\ IF k \in DOMAIN cacheFiles \/ caught("expired.unlink")
           THEN /\ cacheFiles' = unlink(cacheFiles, k)
                /\ race' = [race EXCEPT !.expired = on]
           ELSE /\ race' = [race EXCEPT !.expired =
                              [IdleRace.expired EXCEPT !.outcome = "threw",
                                                       !.enoent = TRUE]]
                /\ UNCHANGED cacheFiles
        /\ UNCHANGED <<memoryCache, cacheIndex, cacheStats, stored, cacheCall>>

\* clearOldCacheFiles, line 329: fs.readdirSync, index.json left out
RaceOldBegin ==
    /\ race.old.pc = "idle"
    /\ race' = [race EXCEPT !.old =
                  IF DOMAIN cacheFiles = {}
                  THEN [IdleRace.old EXCEPT !.outcome = "done"]
                  ELSE [IdleRace.old EXCEPT !.pc = "stat", !.pending = DOMAIN cacheFiles]]
    /\ UNCHANGED <<memoryCache, cacheFiles, cacheIndex, cacheStats, stored, cacheCall>>

\* lines 334-336: fs.statSync of the next file and the age test; a throw
\* of statSync leaves the loop for the catch of line 351
RaceOldStat ==
    /\ race.old.pc = "stat"
    /\ \E k \in race.old.pending :
          race' = [race EXCEPT !.old =
                     IF k \notin DOMAIN cacheFiles
                     THEN IF caught("old.stat")
                          THEN [IdleRace.old EXCEPT !.outcome = "done", !.enoent = TRUE]
                          ELSE [IdleRace.old EXCEPT !.outcome = "threw", !.enoent = TRUE]
                     ELSE IF now - cacheFiles[k].mtime > maxAgeMs
                     THEN [@ EXCEPT !.pc = "unlink", !.cur = k]
                     ELSE IF @.pending = {k}
                     THEN [IdleRace.old EXCEPT !.outcome = "done"]
                     ELSE [@ EXCEPT !.pending = @ \ {k}]]
    /\ UNCHANGED <<memoryCache, cacheFiles, cacheIndex, cacheStats, stored, cacheCall>>

\* line 338: fs.unlinkSync inside the try of lines 337-342
RaceOldUnlink ==
    LET k    == race.old.cur
        rest == race.old.pending \ {k}
        gone == race.old.enoent \/ k \notin DOMAIN cacheFiles
        on   == IF rest = {}
                THEN [IdleRace.old EXCEPT !.outcome = "done", !.enoent = gone]
                ELSE [race.old EXCEPT !.pc = "stat", !.pending = rest, !.cur = "",
                                      !.enoent = gone]
    IN  /\ race.old.pc = "unlink"
        /\ IF k \in DOMAIN cacheFiles \/ caught("old.unlink")
           THEN /\ cacheFiles' = unlink(cacheFiles, k)
                /\ race' = [race EXCEPT !.old = on]
           ELSE /\ race' = [race EXCEPT !.old = [IdleRace.old EXCEPT !.outcome = "threw",
                                                                    !.enoent = TRUE]]
                /\ UNCHANGED cacheFiles
        /\ UNCHANGED <<memoryCache, cacheIndex, cacheStats, stored, cacheCall>>

\* constructor on the directory holding the stale file
RaceInit ==
    /\ now = StartNow
    /\ ticks = 0
    /\ LimiterInit(NoFile)
    /\ memoryCache = <<>>
    /\ cacheFiles = StaleDirFiles
    /\ cacheIndex = StaleDirIndex
    /\ cacheStats = [hits |-> 0, misses |-> 0, saves |-> 0]
    /\ stored = <<>>
    /\ cacheCall = NoCacheCall
    /\ race = IdleRace
    /\ orch = IdleOrch
    /\ manager = NewManager
    /\ promptCall = NoPromptCall
    /\ chunker = NoChunkCall
    /\ debouncer = NoDebounce
    /\ client = NewClient

RaceNext ==
    \/ \E a \in RaceArgs : RaceGetBegin(a[1], a[2]) /\ UNCHANGED <<now, ticks, limiterVars, orchVars, promptVars, chunkVars, debounceVars, clientVars>>
    \/ RaceGetRead /\ UNCHANGED <<now, ticks, limiterVars, orchVars, promptVars, chunkVars, debounceVars, clientVars>>
    \/ RaceGetUnlinkExpired /\ UNCHANGED <<now, ticks, limiterVars, orchVars, promptVars, chunkVars, debounceVars, clientVars>>
    \/ RaceGetUnlinkCorrupt /\ UNCHANGED <<now, ticks, limiterVars, orchVars, promptVars, chunkVars, debounceVars, clientVars>>
    \/ \E a \in RaceArgs, writeOk \in BOOLEAN :
          RacePutBegin(a[1], a[2], a[3], writeOk) /\ UNCHANGED <<now, ticks, limiterVars, orchVars, promptVars, chunkVars, debounceVars, clientVars>>
    \/ RacePutFinish /\ UNCHANGED <<now, ticks, limiterVars, orchVars, promptVars, chunkVars, debounceVars, clientVars>>
    \/ RaceExpiredBegin /\ UNCHANGED <<now, ticks, limiterVars, orchVars, promptVars, chunkVars, debounceVars, clientVars>>
    \/ RaceExpiredExists /\ UNCHANGED <<now, ticks, limiterVars, orchVars, promptVars, chunkVars, debounceVars, clientVars>>
    \/ RaceExpiredUnlink /\ UNCHANGED <<now, ticks, limiterVars, orchVars, promptVars, chunkVars, debounceVars, clientVars>>
    \/ RaceOldBegin /\ UNCHANGED <<now, ticks, limiterVars, orchVars, promptVars, chunkVars, debounceVars, clientVars>>
    \/ RaceOldStat /\ UNCHANGED <<now, ticks, limiterVars, orchVars, promptVars, chunkVars, debounceVars, clientVars>>
    \/ RaceOldUnlink /\ UNCHANGED <<now, ticks, limiterVars, orchVars, promptVars, chunkVars, debounceVars, clientVars>>

RaceSpec == RaceInit /\ [][RaceNext]_vars

\* A call that has returned: what it returned
GetReturned == race.get.pc = "idle" /\ race.get.outcome # "none"
PutReturned == race.put.pc = "idle" /\ race.put.outcome # "none"

\* C14: whatever the interleaving of the fs calls of one get, one put,
\* clearExpiredCache and clearOldCacheFiles, a get that has returned gave a
\* miss or an entry that was stored under its key, a put that has returned
\* gave true or false, and no call of the four ended in an exception.
C14_RacesResolveAsMiss ==
    /\ GetReturned =>
          \/ race.get.outcome = "miss" /\ race.get.entry = NoEntry
          \/ /\ race.get.outcome = "hit"
             /\ \/ race.get.key \in DOMAIN stored /\ race.get.entry = stored[race.get.key]
                \/ race.get.key = race.put.key /\ race.put.outcome # "false"
                                               /\ race.get.entry = race.put.data
    /\ PutReturned => race.put.outcome \in {"true", "false"}
    /\ race.expired.outcome \in {"none", "done"}
    /\ race.old.outcome \in {"none", "done"}

\* C14 witness: the get found the stale file with existsSync and the file
\* was gone at its readFileSync; clearOldCacheFiles found a file of its
\* listing gone at statSync; both have returned, the get with a miss.
C14_Witness ==
    /\ GetReturned /\ race.get.outcome = "miss" /\ race.get.enoent
    /\ race.old.outcome = "done" /\ race.old.enoent

(***************************************************************************)
(* The routes POST /api/analyze-context and POST /api/chat                 *)
(* (src/server/services/ai-service.js): each handler runs from one await   *)
(* to the next in one step, and two handlers may be in flight              *)
(***************************************************************************)
\* isRequestAllowed(userId) at time t on (ul, h, file): the three after it
\* and what the call gave back
isRequestAllowed(ul, h, file, u, t) ==
    LET ul0   == withUser(ul, u)
        limit == limitOf(ul0[u], h)
    IN  IF u \notin DOMAIN ul
        THEN [ ul |-> ul0, h |-> h, file |-> file,
               threw |-> TRUE, allowed |-> FALSE, retryAfter |-> 0 ]
        ELSE LET user1 == IF windowPassed(ul[u], limit, t)
                          THEN resetWindow(ul[u], t) ELSE ul[u]
             IN  IF underLimit(user1, limit)
                 THEN LET r == recordRequest([ul0 EXCEPT ![u] = countRequest(user1, t)],
                                             h, file, u, TRUE, t)
                      IN  [ ul |-> r.ul, h |-> r.h, file |-> r.file,
                            threw |-> FALSE, allowed |-> TRUE, retryAfter |-> 0 ]
                 ELSE LET r == recordRequest([ul0 EXCEPT ![u] = user1],
                                             h, file, u, FALSE, t)
                      IN  [ ul |-> r.ul, h |-> r.h, file |-> r.file,
                            threw |-> FALSE, allowed |-> FALSE,
                            retryAfter |-> retryAfterOf(user1, limit, t) ]

Routes == {"analyze", "chat"}
\* req.body.prompt (or message); "" is a body without one
Prompts == {"p1", "p2", ""}
\* smartProcessor.chunkContent(...).length in the chat route
ChatChunks == {1, 2}
\* how a call of anthropic.messages.create ends
AiResults == {"ok", "error", "rate_limit"}
\* response.content[0].text for a prompt
answer(prompt) == "re:" \o prompt

\* ./user-limits.json at the start: a newUser with 3, or with 4, of its 5
\* requests counted in the current window
OrchFiles ==
    { saveUserData(OneUser(UserRec("newUser", 3, StartNow - 1000, 8, 0)),
                   Health(8, 0, StartNow - 1000), StartNow - 1000),
      saveUserData(OneUser(UserRec("newUser", 4, StartNow - 1000, 8, 0)),
                   Health(8, 0, StartNow - 1000), StartNow - 1000) }

\* the test of lines 608 and 750 left out
denied_Never(check) == FALSE

\* lines 608, 750: if (!rateLimitCheck.allowed) return 429
denied(check) == ~check.allowed

\* the test of lines 627 and 776 left out
served_Never(req) == FALSE

\* lines 627, 776: if (cachedResult) the cached entry is the response
served(req) == req.hit

\* the test of lines 697 and 868 left out
hasResponse_Always(text) == TRUE

\* lines 697, 868: with no text to answer with the handler throws
hasResponse(text) == text # ""

\* the routes' catch block (lines 723-741, 899-919) at time t
routeCatch(ul, h, file, u, t) == recordRequest(ul, h, file, u, FALSE, t)

setLimiter(r) ==
    /\ userLimits' = r.ul
    /\ apiHealth' = r.h
    /\ limitsFile' = r.file

finished(req, status, n) == [req EXCEPT !.pc = "done", !.status = status, !.completed = n]

\* lines 603-626 and 745-775: the limiter check, the body check and the call
\* of getCachedContent, which runs to its end before the handler awaits it
OrchBegin(r, route, u, prompt, chunks) ==
    LET n    == orch.events + 1
        chk  == isRequestAllowed(userLimits, apiHealth, limitsFile, u, now)
        had  == u \in DOMAIN userLimits
        base == [IdleRequest EXCEPT
                    !.route = route, !.userId = u, !.prompt = prompt, !.arrived = n,
                    !.had = had,
                    !.successBefore = IF had THEN userLimits[u].successCount ELSE 0,
                    !.errorBefore = IF had THEN userLimits[u].errorCount ELSE 0,
                    !.threw = chk.threw, !.allowed = chk.allowed]
    IN  /\ orch.reqs[r].pc = "idle"
        /\ r = 1 \/ orch.reqs[1].pc # "idle"
        /\ route = "analyze" => chunks = 1
        /\ IF chk.threw
           THEN /\ setLimiter(routeCatch(chk.ul, chk.h, chk.file, u, now))
                /\ orch' = [reqs |-> [orch.reqs EXCEPT ![r] = finished(base, 500, n)],
                            events |-> n]
                /\ UNCHANGED cacheVars
           ELSE IF denied(chk)
           THEN /\ setLimiter(chk)
                /\ orch' = [reqs |-> [orch.reqs EXCEPT ![r] = finished(base, 429, n)],
                            events |-> n]
                /\ UNCHANGED cacheVars
           ELSE IF prompt = ""
           THEN /\ setLimiter(chk)
                /\ orch' = [reqs |-> [orch.reqs EXCEPT ![r] = finished(base, 400, n)],
                            events |-> n]
                /\ UNCHANGED cacheVars
           ELSE /\ setLimiter(chk)
                /\ GetCachedContent(prompt, prompt)
                /\ orch' = [reqs |-> [orch.reqs EXCEPT ![r] =
                                [base EXCEPT !.pc = "lookup", !.looked = TRUE,
                                             !.hit = cacheCall'.hit,
                                             !.text = cacheCall'.entry.content,
                                             !.chunksLeft = chunks]],
                            events |-> n]
        /\ UNCHANGED <<outcomes, call>>

\* lines 627-684 and 776-849: the cached entry is served, or the first call
\* of anthropic.messages.create is made
OrchAfterLookup(r) ==
    LET req == orch.reqs[r]
        n   == orch.events + 1
    IN  /\ req.pc = "lookup"
        /\ IF served(req)
           THEN /\ setLimiter(recordRequest(userLimits, apiHealth, limitsFile,
                                            req.userId, TRUE, now))
                /\ orch' = [reqs |-> [orch.reqs EXCEPT ![r] =
                                [finished(req, 200, n) EXCEPT !.body = req.text,
                                                              !.cached = TRUE]],
                            events |-> n]
           ELSE /\ orch' = [reqs |-> [orch.reqs EXCEPT ![r] =
                                [req EXCEPT !.pc = "ai", !.aiCalls = @ + 1]],
                            events |-> n]
                /\ UNCHANGED <<userLimits, apiHealth, limitsFile>>
        /\ UNCHANGED <<outcomes, call, cacheVars>>

\* lines 684-721 and 849-884: a call of anthropic.messages.create ends.  In
\* the chat route a failed chunk is passed over and the next chunk is sent
\* (rate_limit ends the loop); with no text at the end, and in the analyze
\* route on any failure, the handler throws into its catch block.
OrchAiReturns(r, result, writeOk) ==
    LET req    == orch.reqs[r]
        n      == orch.events + 1
        text   == IF result = "ok" THEN answer(req.prompt) ELSE req.text
        left   == IF result = "rate_limit" THEN 0 ELSE req.chunksLeft - 1
        req1   == [req EXCEPT !.text = text, !.chunksLeft = left,
                              !.aiFailures = IF result = "ok" THEN @ ELSE @ + 1]
    IN  /\ req.pc = "ai"
        /\ IF req.route = "chat" /\ left > 0
           THEN /\ orch' = [reqs |-> [orch.reqs EXCEPT ![r] =
                                [req1 EXCEPT !.aiCalls = @ + 1]],
                            events |-> n]
                /\ UNCHANGED <<userLimits, apiHealth, limitsFile, cacheVars>>
           ELSE IF hasResponse(text)
           THEN /\ CacheContent(req.prompt, req.prompt, text, writeOk)
                /\ orch' = [reqs |-> [orch.reqs EXCEPT ![r] =
                                [req1 EXCEPT !.pc = "caching"]],
                            events |-> n]
                /\ UNCHANGED <<userLimits, apiHealth, limitsFile>>
           ELSE /\ setLimiter(routeCatch(userLimits, apiHealth, limitsFile,
                                         req.userId, now))
                /\ orch' = [reqs |-> [orch.reqs EXCEPT ![r] =
                                finished(req1,
                                         IF req.route = "analyze" /\ result = "rate_limit"
                                         THEN 429 ELSE 500, n)],
                            events |-> n]
                /\ UNCHANGED cacheVars
        /\ UNCHANGED <<outcomes, call>>

\* lines 704-713 and 887-897: after cacheContent, whatever it returned
OrchAfterCache(r) ==
    LET req == orch.reqs[r]
        n   == orch.events + 1
    IN  /\ req.pc = "caching"
        /\ setLimiter(recordRequest(userLimits, apiHealth, limitsFile,
                                    req.userId, TRUE, now))
        /\ orch' = [reqs |-> [orch.reqs EXCEPT ![r] =
                        [finished(req, 200, n) EXCEPT !.body = req.text]],
                    events |-> n]
        /\ UNCHANGED <<outcomes, call, cacheVars>>

OrchInit ==
    /\ now = StartNow
    /\ ticks = 0
    /\ \E file \in OrchFiles \cup {NoFile} : LimiterInit(file)
    /\ CacheInit
    /\ race = IdleRace
    /\ orch = IdleOrch
    /\ manager = NewManager
    /\ promptCall = NoPromptCall
    /\ chunker = NoChunkCall
    /\ debouncer = NoDebounce
    /\ client = NewClient

OrchNext ==
    \/ \E r \in Slots, route \in Routes, u \in Users, prompt \in Prompts,
          chunks \in ChatChunks :
            OrchBegin(r, route, u, prompt, chunks) /\ UNCHANGED <<now, ticks, raceVars, promptVars, chunkVars, debounceVars, clientVars>>
    \/ \E r \in Slots : OrchAfterLookup(r) /\ UNCHANGED <<now, ticks, raceVars, promptVars, chunkVars, debounceVars, clientVars>>
    \/ \E r \in Slots, result \in AiResults, writeOk \in BOOLEAN :
            OrchAiReturns(r, result, writeOk) /\ UNCHANGED <<now, ticks, raceVars, promptVars, chunkVars, debounceVars, clientVars>>
    \/ \E r \in Slots : OrchAfterCache(r) /\ UNCHANGED <<now, ticks, raceVars, promptVars, chunkVars, debounceVars, clientVars>>

OrchSpec == OrchInit /\ [][OrchNext]_vars

(***************************************************************************)
(* Claims about the routes (checked under OrchSpec)                        *)
(***************************************************************************)
Req(r) == orch.reqs[r]
Done(r) == Req(r).pc = "done"

\* C15: a handler of either route has called anthropic.messages.create only
\* if isRequestAllowed returned allowed for it and its getCachedContent
\* returned no entry; a handler that was denied, or whose lookup hit, ends
\* with no AI call made.
C15_AiAfterAllowAndMiss ==
    \A r \in Slots :
        /\ Req(r).aiCalls > 0 =>
              /\ Req(r).allowed /\ ~Req(r).threw
              /\ Req(r).looked /\ ~Req(r).hit
        /\ (Done(r) /\ (~Req(r).allowed \/ Req(r).cached)) => Req(r).aiCalls = 0

\* C15 witness: one handler was answered by the AI service after a miss, the
\* other was answered from the cache with no AI call.
C15_Witness ==
    \E r1, r2 \in Slots :
        /\ Done(r1) /\ Req(r1).status = 200 /\ Req(r1).aiCalls > 0 /\ ~Req(r1).cached
        /\ Done(r2) /\ Req(r2).status = 200 /\ Req(r2).aiCalls = 0 /\ Req(r2).cached
        /\ Req(r2).body = answer(Req(r1).prompt)

\* C16 as claimed: when two handlers of one user are answered by the AI
\* service and the one that arrived first ends last, the result of the
\* first is not delivered.
C16_Claimed ==
    \A older, newer \in Slots :
        ( /\ Done(older) /\ Done(newer)
          /\ Req(older).userId = Req(newer).userId
          /\ Req(older).prompt # Req(newer).prompt
          /\ Req(older).arrived < Req(newer).arrived
          /\ Req(older).completed > Req(newer).completed
          /\ Req(older).aiCalls > 0 /\ Req(newer).aiCalls > 0
          /\ Req(newer).status = 200 )
        => (Req(older).status # 200 /\ Req(older).body = "")

\* C17 as claimed: over the handling of an analyze-context request whose AI
\* call failed, with no other request of the user handled meanwhile, the
\* user's errorCount has grown by one and successCount is as it was.
C17_Claimed ==
    \A r \in Slots :
        ( /\ Done(r) /\ Req(r).route = "analyze" /\ Req(r).aiFailures > 0
          /\ Req(r).had
          /\ \A o \in Slots \ {r} : Req(o).pc = "idle" )
        => /\ userLimits[Req(r).userId].errorCount = Req(r).errorBefore + 1
           /\ userLimits[Req(r).userId].successCount = Req(r).successBefore

\* C33 as claimed: of two handlers of the analyze-context route in flight
\* at the same time for the same prompt, at most one calls
\* anthropic.messages.create.
C33_Claimed ==
    \A first, second \in Slots :
        ( /\ first # second
          /\ Req(first).route = "analyze" /\ Req(second).route = "analyze"
          /\ Req(first).prompt = Req(second).prompt
          /\ Req(first).arrived < Req(second).arrived
          /\ ~Done(first) \/ Req(first).completed > Req(second).arrived
          /\ Req(first).aiCalls > 0 )
        => Req(second).aiCalls = 0

\* the handler has called cacheContent
wrote(r) == Req(r).pc = "caching" \/ (Done(r) /\ Req(r).status = 200 /\ ~Req(r).cached)

\* the cache holds an entry under the key of the handler's request
entryOf(r) ==
    generateCacheKey(Req(r).prompt, Req(r).prompt)
        \in memKeys(memoryCache) \cup DOMAIN cacheFiles

\* C38 as claimed: a chat handler calls cacheContent only when none of its
\* AI calls failed, and a chat request with a failed AI call, handled alone,
\* leaves no cache entry under its key.
C38_Claimed ==
    \A r \in Slots :
        Req(r).route = "chat" =>
            /\ wrote(r) => Req(r).aiFailures = 0
            /\ ( /\ Done(r) /\ Req(r).aiFailures > 0
                 /\ \A o \in Slots \ {r} : Req(o).pc = "idle" ) => ~entryOf(r)

\* C38 amended: a chat handler calls cacheContent only when at least one of
\* its AI calls returned text, with what was returned; a chat request all of
\* whose AI calls failed ends with status 500 and, handled alone, leaves no
\* cache entry under its key.
C38_CachedWhenAnyText ==
    \A r \in Slots :
        Req(r).route = "chat" =>
            /\ wrote(r) => /\ Req(r).aiCalls > Req(r).aiFailures
                           /\ Req(r).text = answer(Req(r).prompt)
            /\ ( /\ Done(r) /\ Req(r).aiCalls > 0
                 /\ Req(r).aiFailures = Req(r).aiCalls ) =>
                  /\ ~wrote(r) /\ Req(r).status = 500
                  /\ (\A o \in Slots \ {r} : Req(o).pc = "idle") => ~entryOf(r)

\* C38 witness: a chat request of two chunks whose first AI call failed and
\* whose second returned text has been written to the cache
C38_Witness ==
    \E r \in Slots :
        /\ Req(r).route = "chat" /\ wrote(r)
        /\ Req(r).aiCalls = 2 /\ Req(r).aiFailures = 1
        /\ entryOf(r)

(***************************************************************************)
(* PromptSpec: the calls of one SystemPromptManager                        *)
(***************************************************************************)
\* the templates handed to setBaseTemplate: two that hold the user-text
\* placeholder, and four that do not
Templates ==
    { Str(<<"Summarize:", NL, NL, NL, USER_TEXT>>),
      Str(<<RETRIEVED_CONTEXT, " ", USER_TEXT>>),
      Str(<<"Summarize:", RETRIEVED_CONTEXT>>),
      Str(<<>>),
      Undefined,
      ANumber }

UserTexts == { Str(<<" ", "revenue", NL>>), Str(<<MatchPattern>>), Str(<<>>), ANumber }

Contexts == { Str(<<"10-K">>), Str(<<NL>>), Undefined }

\* the objects handed to importTemplate: an export of a manager, one with a
\* template that lacks the placeholder, and one whose context is no string
TemplateDatas ==
    { [ baseTemplate |-> Str(<<RETRIEVED_CONTEXT, " ", USER_TEXT>>),
        currentUserText |-> Str(<<"revenue">>),
        currentRetrievedContext |-> Str(<<"10-K">>) ],
      [ baseTemplate |-> Str(<<"Summarize:", RETRIEVED_CONTEXT>>),
        currentUserText |-> Str(<<"revenue">>),
        currentRetrievedContext |-> Str(<<>>) ],
      [ baseTemplate |-> Undefined,
        currentUserText |-> Str(<<"revenue">>),
        currentRetrievedContext |-> ANumber ] }

\* which of the subscribers throw during a call
ThrowerSets == { {}, {"s1"}, {"s2", "s3"} }

PromptInit ==
    /\ now = StartNow
    /\ ticks = 0
    /\ LimiterInit(NoFile)
    /\ CacheInit
    /\ race = IdleRace
    /\ orch = IdleOrch
    /\ manager = NewManager
    /\ promptCall = NoPromptCall
    /\ chunker = NoChunkCall
    /\ debouncer = NoDebounce
    /\ client = NewClient

\* the prompts handed to validatePrompt besides the manager's own: blank
\* text, a text over the length limit, and a value that is no string
OtherPrompts == { Str(<<" ", NL>>), Str(<<"Summarize:", LongText>>), Undefined }

PromptNext ==
    \/ \E prompt \in {Str(manager.lastBuiltPrompt), Str(manager.baseTemplate)}
                      \cup OtherPrompts :
          /\ ValidatePrompt(prompt)
          /\ UNCHANGED <<now, ticks, limiterVars, cacheVars, raceVars, orchVars, chunkVars, debounceVars, clientVars>>
    \/ \E template \in Templates, throwers \in ThrowerSets :
          /\ SetBaseTemplate(template, throwers)
          /\ UNCHANGED <<now, ticks, limiterVars, cacheVars, raceVars, orchVars, chunkVars, debounceVars, clientVars>>
    \/ \E userText \in UserTexts, throwers \in ThrowerSets :
          /\ UpdateUserText(userText, throwers)
          /\ UNCHANGED <<now, ticks, limiterVars, cacheVars, raceVars, orchVars, chunkVars, debounceVars, clientVars>>
    \/ \E context \in Contexts, throwers \in ThrowerSets :
          /\ UpdateRetrievedContext(context, throwers)
          /\ UNCHANGED <<now, ticks, limiterVars, cacheVars, raceVars, orchVars, chunkVars, debounceVars, clientVars>>
    \/ \E throwers \in ThrowerSets :
          /\ GetCurrentPrompt(throwers)
          /\ UNCHANGED <<now, ticks, limiterVars, cacheVars, raceVars, orchVars, chunkVars, debounceVars, clientVars>>
    \/ /\ Reset
       /\ UNCHANGED <<now, ticks, limiterVars, cacheVars, raceVars, orchVars, chunkVars, debounceVars, clientVars>>
    \/ \E templateData \in TemplateDatas, throwers \in ThrowerSets :
          /\ ImportTemplate(templateData, throwers)
          /\ UNCHANGED <<now, ticks, limiterVars, cacheVars, raceVars, orchVars, chunkVars, debounceVars, clientVars>>
    \/ \E callback \in Subscribers :
          /\ OnPromptUpdate(callback)
          /\ UNCHANGED <<now, ticks, limiterVars, cacheVars, raceVars, orchVars, chunkVars, debounceVars, clientVars>>
    \/ \E callback \in Subscribers :
          /\ OffPromptUpdate(callback)
          /\ UNCHANGED <<now, ticks, limiterVars, cacheVars, raceVars, orchVars, chunkVars, debounceVars, clientVars>>

PromptSpec == PromptInit /\ [][PromptNext]_vars

(***************************************************************************)
(* Claims about the SystemPromptManager                                    *)
(***************************************************************************)
\* the prompt a rebuild from the manager's current fields gives
Rebuilt ==
    buildPrompt(manager.baseTemplate, manager.currentUserText,
                manager.currentRetrievedContext)

\* C18: a setBaseTemplate whose template lacks the {{USER_TEXT}} placeholder
\* throws, leaves the template, the user text, the retrieved context and
\* lastBuiltPrompt as they were, builds nothing and calls no subscriber.
C18_RejectedTemplateChangesNothing ==
    (/\ promptCall.op = "setBaseTemplate"
     /\ ~(promptCall.arg.type = "string" /\ includes(promptCall.arg.text, USER_TEXT)))
    => /\ promptCall.threw
       /\ manager.baseTemplate = promptCall.before.baseTemplate
       /\ manager.currentUserText = promptCall.before.currentUserText
       /\ manager.currentRetrievedContext = promptCall.before.currentRetrievedContext
       /\ manager.lastBuiltPrompt = promptCall.before.lastBuiltPrompt
       /\ promptCall.builds = <<>>

\* C18 witness: a manager with a subscriber and a built prompt has just
\* thrown on a non-empty template that holds no user-text placeholder.
C18_Witness ==
    /\ promptCall.op = "setBaseTemplate"
    /\ promptCall.arg = Str(<<"Summarize:", RETRIEVED_CONTEXT>>)
    /\ promptCall.threw
    /\ manager.promptUpdateCallbacks # <<>>
    /\ manager.lastBuiltPrompt # <<>>
    /\ manager.baseTemplate # getDefaultTemplate

\* the operations C19 speaks of
C19Ops ==
    {"setBaseTemplate", "updateUserText", "updateRetrievedContext",
     "importTemplate", "reset", "getCurrentPrompt"}

\* C19 as claimed: after each of these operations lastBuiltPrompt is the
\* prompt a rebuild from the current template, user text and retrieved
\* context gives.
C19_Claimed ==
    promptCall.op \in C19Ops => manager.lastBuiltPrompt = Rebuilt

\* C19, amended: lastBuiltPrompt is either the empty string, as the
\* constructor and reset leave it, or the prompt a rebuild from the current
\* template, user text and retrieved context gives; after every call that
\* rebuilt, and after every getCurrentPrompt, it is the rebuilt prompt.
C19_EmptyOrRebuilt ==
    /\ manager.lastBuiltPrompt = <<>> \/ manager.lastBuiltPrompt = Rebuilt
    /\ promptCall.builds # <<>> => manager.lastBuiltPrompt = Rebuilt
    /\ promptCall.op = "getCurrentPrompt" => manager.lastBuiltPrompt = Rebuilt
    /\ promptCall.op = "reset" => manager.lastBuiltPrompt = <<>>

\* C19 witness: a getCurrentPrompt found the prompt emptied by a reset, with
\* a template other than the default one, and rebuilt it.
C19_Witness ==
    /\ promptCall.op = "getCurrentPrompt"
    /\ promptCall.before.lastBuiltPrompt = <<>>
    /\ promptCall.before.baseTemplate # getDefaultTemplate
    /\ Len(promptCall.builds) = 1
    /\ manager.lastBuiltPrompt = Rebuilt
    /\ manager.lastBuiltPrompt # <<>>

\* the calls that rebuild and return, when their argument is accepted
Setters ==
    {"setBaseTemplate", "updateUserText", "updateRetrievedContext", "getCurrentPrompt"}

\* the number of calls a rebuild made to callback
timesCalled(build, callback) ==
    Cardinality({i \in 1..Len(build.called) : build.called[i] = callback})

\* C20: every rebuild of a call hands its prompt to each registered subscriber
\* exactly once and to nobody else, whichever subscribers throw; the setter
\* that rebuilt returns normally and lastBuiltPrompt is the prompt of the
\* last rebuild.
C20_EachSubscriberOncePerRebuild ==
    /\ \A i \in 1..Len(promptCall.builds) :
          /\ \A callback \in seqRange(promptCall.before.promptUpdateCallbacks) :
                timesCalled(promptCall.builds[i], callback) = 1
          /\ seqRange(promptCall.builds[i].called)
                \subseteq seqRange(promptCall.before.promptUpdateCallbacks)
    /\ (promptCall.op \in Setters /\ promptCall.builds # <<>>) => ~promptCall.threw
    /\ promptCall.builds # <<>> =>
          manager.lastBuiltPrompt = promptCall.builds[Len(promptCall.builds)].prompt

\* C20 witness: an importTemplate rebuilt three times with s1, s2 and s3
\* registered while s1, the first to be called, threw each time; and a
\* setter returned with two registered subscribers of which the first threw.
C20_Witness ==
    \/ /\ promptCall.op = "importTemplate"
       /\ Len(promptCall.builds) = 3
       /\ Len(promptCall.before.promptUpdateCallbacks) = 3
       /\ promptCall.before.promptUpdateCallbacks[1] \in promptCall.throwers
       /\ promptCall.builds[1].prompt # promptCall.builds[3].prompt
       /\ ~promptCall.threw
    \/ /\ promptCall.op = "updateUserText"
       /\ Len(promptCall.builds) = 1
       /\ Len(promptCall.before.promptUpdateCallbacks) = 2
       /\ promptCall.before.promptUpdateCallbacks[1] \in promptCall.throwers
       /\ promptCall.before.promptUpdateCallbacks[2] \notin promptCall.throwers
       /\ manager.lastBuiltPrompt # promptCall.before.lastBuiltPrompt
       /\ ~promptCall.threw

\* the verdict of the validatePrompt call just made, on a string
Validated ==
    /\ promptCall.op = "validatePrompt"
    /\ promptCall.arg.type = "string"

\* C21 as claimed: validatePrompt reports a prompt invalid when it holds the
\* user-text placeholder while the current user text is non-empty, or the
\* retrieved-context placeholder while the current retrieved context is
\* non-empty.
C21_Claimed ==
    (/\ Validated
     /\ \/ includes(promptCall.arg.text, USER_TEXT) /\ manager.currentUserText # <<>>
        \/ includes(promptCall.arg.text, RETRIEVED_CONTEXT)
              /\ manager.currentRetrievedContext # <<>>)
    => ~promptCall.validation.isValid

(***************************************************************************)
(* ChunkSpec: the calls of one SmartContentProcessor                       *)
(***************************************************************************)
\* the header of the section at place i of a content
headerAt(i) == <<"# Results", "# Outlook", "# Notes", "# Risks">>[i]

\* the bodies of the sections: business and disclaimer words in several
\* numbers, a body of one word, and a body of three paragraphs that is
\* longer than maxChunkSize
Bodies ==
    { <<"revenue", "growth", "disclaimer", "legal">>,
      <<"disclaimer", "legal", "notice">>,
      <<"revenue", "disclaimer", "legal", "notice">>,
      <<"revenue", "the", "the">>,
      <<"the", "the", "the">>,
      <<"revenue">>,
      <<"revenue", "growth", "the", "the", "the", "the", NL, NL,
        "healthcare", "the", "the", "the", "the", "the", "the", NL, " ", NL,
        "the", "the", "revenue">> }

MaxSections == 3

RECURSIVE contentOf(_, _)
contentOf(bodies, i) ==
    IF i > Len(bodies) THEN <<>>
    ELSE <<NL, headerAt(i), NL>> \o bodies[i] \o contentOf(bodies, i + 1)

\* the contents handed to chunkContent: up to MaxSections sections under
\* markdown headers, the empty content among them; a content whose sections
\* stand under one and the same header; and one with headers in capitals
ChunkContents ==
    { contentOf(bodies, 1) :
        bodies \in UNION {[1..n -> Bodies] : n \in 0..MaxSections} }
    \cup { <<NL, "# Notes", NL, "revenue", "growth", "the", "the", "the",
             NL, "# Notes", NL, "revenue", "the", "the", "the", "the",
             NL, "# Notes", NL, "growth", "the", "the">>,
           <<NL, "SUMMARY", NL, "revenue", "growth", "the", "the", "the", "the",
             NL, "SUMMARY", NL, NL, "healthcare", "the", "the", "the", "the">>,
           \* one section of two paragraphs of 8 and 6: 14 without the blank line
           <<NL, "# Results", NL, "revenue", "growth", "the", "the", "the", NL, NL,
             "revenue", "the", "the", "the", "the", "the">>,
           \* one section that is one paragraph of 15
           <<"revenue", "growth", "the", "the", "the", "the", "the", "the", "the",
             "the", "the", "the", "the", "the", "the">> }

ChunkQueries == { <<>>, <<"revenue">>, <<"care", " ", "legal">> }

ChunkInit ==
    /\ now = StartNow
    /\ ticks = 0
    /\ LimiterInit(NoFile)
    /\ CacheInit
    /\ race = IdleRace
    /\ orch = IdleOrch
    /\ manager = NewManager
    /\ promptCall = NoPromptCall
    /\ \E content \in ChunkContents, query \in ChunkQueries :
          chunker = [NoChunkCall EXCEPT !.content = content, !.query = query]
    /\ debouncer = NoDebounce
    /\ client = NewClient

ChunkNext ==
    \/ /\ ChunkContent
       /\ UNCHANGED <<now, ticks, limiterVars, cacheVars, raceVars, orchVars, promptVars, debounceVars, clientVars>>
    \/ /\ AddOverlap
       /\ UNCHANGED <<now, ticks, limiterVars, cacheVars, raceVars, orchVars, promptVars, debounceVars, clientVars>>

ChunkSpec == ChunkInit /\ [][ChunkNext]_vars

(***************************************************************************)
(* Claims about the SmartContentProcessor                                  *)
(***************************************************************************)
\* a chunkContent call has returned
Chunked == chunker.op = "chunkContent"

\* C22: for a content of at most maxChunkSize, whatever the query,
\* chunkContent returns exactly one chunk, and its content is the content
\* that was passed in.
C22_SmallContentIsOneChunk ==
    (Chunked /\ Len(chunker.content) <= maxChunkSize)
    => /\ Len(chunker.result) = 1
       /\ chunker.result[1].content = chunker.content

\* C22 witness: a content of exactly maxChunkSize with two markdown
\* sections came back whole under a query.
C22_Witness ==
    /\ Chunked
    /\ Len(chunker.content) = maxChunkSize
    /\ Len(match(chunker.content, 1, "markdown")) = 2
    /\ chunker.query # <<>>
    /\ Len(chunker.result) = 1
    /\ chunker.result[1].content = chunker.content

\* C23 as claimed: chunkContent on the empty content returns the empty
\* list, whatever the query.
C23_Claimed ==
    (Chunked /\ chunker.content = <<>>) => chunker.result = <<>>

\* C24 as claimed: for a content longer than maxChunkSize whose sections
\* are all removed by the keyword and relevance filters, chunkContent
\* returns the two most relevant chunks of the sections as they were before
\* the filters (or the one there is), never the empty list.
C24_Claimed ==
    (/\ Chunked
     /\ Len(chunker.content) > maxChunkSize
     /\ chunker.sections # <<>>
     /\ SelectSeq(chunker.sorted, aboveThreshold) = <<>>)
    => /\ chunker.result # <<>>
       /\ chunker.result =
            addOverlap(sliceStart(sortByRelevance(chunksOf(chunker.sections,
                                                           chunker.query), <<>>), 2))

\* the text holds part as a run of consecutive pieces
containsText(text, part) == part = <<>> \/ indexOf(text, part, 1) > 0

\* C25 as claimed: every chunk chunkContent returns has an enhancedLength
\* that is at least its originalLength, a content that holds the content
\* the chunk had before the overlap was attached, and the relevance
\* computed before; for results of one chunk as for longer ones.
C25_Claimed ==
    Chunked =>
        \A i \in 1..Len(chunker.result) :
            LET chunk == chunker.result[i]
                plain == IF chunker.multi THEN chunker.chosen[i]
                         ELSE Chunk(chunker.content,
                                    calculateRelevance(chunker.content, chunker.query), "")
            IN  /\ {"originalLength", "enhancedLength"} \subseteq chunk.fields
                /\ chunk.enhancedLength >= chunk.originalLength
                /\ containsText(chunk.content, plain.content)
                /\ chunk.relevance = plain.relevance

\* C26 as claimed: addOverlap applied to a list addOverlap has returned
\* gives that list again.
C26_Claimed ==
    chunker.op = "addOverlap" => chunker.result = chunker.before

\* the chunks chunkContent makes of one section
chunksOfSection(section) == chunksOf(<<section>>, chunker.query)

\* C27: a section is kept by the keyword filter exactly when it holds two
\* business keywords or more, or one business keyword and fewer than three
\* disclaimer keywords; a section with no business keyword and three
\* disclaimer keywords or more gives no chunk of the result, and a section
\* with two business keywords or more and two disclaimer keywords gives its
\* chunks to the result.
C27_KeywordFilter ==
    Chunked =>
        \A i \in 1..Len(chunker.sections) :
            LET section == chunker.sections[i]
                b == businessCount(section)
                d == disclaimerCount(section)
            IN  /\ section \in seqRange(chunker.kept)
                      <=> (b >= 2 \/ (b >= 1 /\ d < 3))
                /\ (b = 0 /\ d >= 3) =>
                      seqRange(chunksOfSection(section)) \cap seqRange(chunker.chosen) = {}
                /\ (b >= 2 /\ d = 2) =>
                      /\ seqRange(chunksOfSection(section)) \subseteq seqRange(chunker.chosen)
                      /\ \A chunk \in seqRange(chunksOfSection(section)) :
                            \E j \in 1..Len(chunker.result) :
                                containsText(chunker.result[j].content, chunk.content)

\* C27 witness: a content of three sections, one with two business and two
\* disclaimer keywords, one with three disclaimer keywords and no business
\* keyword, one with one business keyword and three disclaimer keywords;
\* only the first is kept.
C27_Witness ==
    /\ Chunked
    /\ Len(chunker.sections) = 3
    /\ \E i, j, k \in 1..3 :
          /\ businessCount(chunker.sections[i]) >= 2
          /\ disclaimerCount(chunker.sections[i]) = 2
          /\ businessCount(chunker.sections[j]) = 0
          /\ disclaimerCount(chunker.sections[j]) >= 3
          /\ businessCount(chunker.sections[k]) = 1
          /\ disclaimerCount(chunker.sections[k]) = 3
          /\ chunker.kept = <<chunker.sections[i]>>
    /\ Len(chunker.result) = 1


(***************************************************************************)
(* Debounced functions under the event loop: calls of the function that    *)
(* PerformanceUtils.debounce returned and of EditorManager.debounce for    *)
(* two keys, the clock, and the loop running the timers that are due.      *)
(* The loop eventually runs a due timer and the clock advances: these are  *)
(* the fairness conditions of DebounceLiveSpec.                            *)
(***************************************************************************)
Waits == {1, 2}
Inputs == {"a", "b"}

DebounceInit ==
    /\ now = StartNow
    /\ ticks = 0
    /\ LimiterInit(NoFile)
    /\ CacheInit
    /\ race = IdleRace
    /\ orch = IdleOrch
    /\ manager = NewManager
    /\ promptCall = NoPromptCall
    /\ chunker = NoChunkCall
    /\ \E wait \in Waits : debouncer = [NoDebounce EXCEPT !.wait = wait]
    /\ client = NewClient

DebounceFrame ==
    UNCHANGED <<now, ticks, limiterVars, cacheVars, raceVars, orchVars, promptVars, chunkVars,
                clientVars>>

DebounceCalls ==
    \/ \E args \in Inputs : CallExecutedFunction(args) /\ DebounceFrame
    \/ \E key \in EditorKeys, args \in Inputs : CallDebounce(key, args) /\ DebounceFrame

DebounceTimers == \E tm \in debouncer.timers : FireTimer(tm) /\ DebounceFrame

DebounceClock == ClockTick /\ DebounceFrame

DebounceNext ==
    \/ DebounceCalls
    \/ DebounceTimers
    \/ DebounceClock

DebounceSpec == DebounceInit /\ [][DebounceNext]_vars

DebounceLiveSpec ==
    DebounceSpec /\ WF_vars(DebounceTimers) /\ WF_vars(DebounceClock)

(***************************************************************************)
(* Claims about debounce                                                   *)
(***************************************************************************)
pending(o) == {tm \in debouncer.timers : tm.owner = o}

delayFor(o) == IF o = "executedFunction" THEN debouncer.wait ELSE delayOf[o]

Burst(o) == debouncer.lastCall[o] # NoRun

C28_OneTimer(o) ==
    /\ Cardinality(pending(o)) <= 1
    /\ \A tm \in pending(o) :
          /\ tm.due = debouncer.lastCall[o].at + delayFor(o)
          /\ tm.args = debouncer.lastCall[o].args
          /\ debouncer.runsSinceCall[o] = 0

C28_OncePerBurst(o) ==
    /\ debouncer.runsSinceCall[o] <= 1
    /\ (Burst(o) /\ pending(o) = {}) => debouncer.runsSinceCall[o] = 1
    /\ debouncer.runsSinceCall[o] = 1 =>
          /\ debouncer.ran[o].args = debouncer.lastCall[o].args
          /\ debouncer.ran[o].at >= debouncer.lastCall[o].at + delayFor(o)

\* C28: the wrapped function of a debounced function runs only when its delay
\* has passed since the last call, once for each burst of calls and with the
\* arguments of the burst's last call; a call clears the pending timer and
\* sets a new one, so at most one timer of the function is pending, and the
\* burst's run does come.
C28_Debounce ==
    /\ [](\A o \in Owners : C28_OneTimer(o) /\ C28_OncePerBurst(o))
    /\ \A o \in Owners :
          (Burst(o) /\ debouncer.runsSinceCall[o] = 0) ~> (debouncer.runsSinceCall[o] = 1)

\* a burst of two calls with different arguments has been run, once, after a
\* call replaced a timer that was pending
C28_Witness ==
    \E o \in Owners :
       /\ debouncer.runsSinceCall[o] = 1
       /\ debouncer.ran[o].args = "b"
       /\ debouncer.ran[o].at > debouncer.lastCall[o].at + delayFor(o)
       /\ debouncer.nextId > 2
       /\ debouncer.calls >= 2
       /\ pending(o) = {}


(***************************************************************************)
(* Further claims about the rate limiter (checked under Spec)              *)
(***************************************************************************)
\* C29 as claimed: the window is fixed: an allowed request that does not
\* reset the window leaves the window start (lastRequest) as it was.
C29_Claimed ==
    (Decided /\ call.allowed /\ ~call.windowReset) =>
        userLimits[call.userId].lastRequest = call.before.lastRequest

\* a step that is recordRequest(userId, success) for a user with a record
RecordStep(success) ==
    /\ call'.op = "recordRequest"
    /\ call'.success = success
    /\ call'.had
    /\ outcomes' = outcomes + 1

\* updateApiHealth's condition in the call of this step
HealthResetDue == now - apiHealth.lastReset > healthResetMs

FailureCounted ==
    /\ apiHealth'.successRate = apiHealth.successRate
    /\ apiHealth'.errorCount = apiHealth.errorCount + 1
    /\ apiHealth'.totalRequests = apiHealth.totalRequests + 1

UserFailureCounted ==
    /\ userLimits'[call'.userId].errorCount = userLimits[call'.userId].errorCount + 1
    /\ userLimits'[call'.userId].successCount = userLimits[call'.userId].successCount

\* C30 as claimed: recordRequest(userId, false) leaves the health EMA as it
\* was and raises the error counters of the user and of the health record
\* and totalRequests by one; recordRequest(userId, true) sets the EMA to
\* 0.9 x old + 0.1.
C30_Claimed ==
    [][ /\ RecordStep(FALSE) => (FailureCounted /\ UserFailureCounted)
        /\ RecordStep(TRUE) =>
              apiHealth'.successRate = (apiHealth.successRate * 9) \div 10 + 100
      ]_vars

\* C30 amended: as claimed in a call in which the hourly reset of the health
\* record is not due; in a call in which it is due (more than an hour since
\* lastReset) the health record is reset after the counting, success or
\* failure: EMA 1.0, errorCount 0, totalRequests 0, lastReset the time of
\* the call.  The user's error counter is raised by a failure either way.
C30_CountedOrReset ==
    [][ /\ RecordStep(FALSE) =>
              /\ UserFailureCounted
              /\ IF HealthResetDue THEN apiHealth' = FreshHealth(now)
                                   ELSE FailureCounted
        /\ RecordStep(TRUE) =>
              IF HealthResetDue
              THEN apiHealth' = FreshHealth(now)
              ELSE /\ apiHealth'.successRate = (apiHealth.successRate * 9) \div 10 + 100
                   /\ apiHealth'.errorCount = apiHealth.errorCount
      ]_vars

\* C30 witness: a failure has just been recorded for a user with a record
\* in the call in which the health record was reset.
C30_Witness ==
    /\ call.op = "recordRequest" /\ ~call.success /\ call.had
    /\ userLimits[call.userId].errorCount = call.before.errorCount + 1
    /\ apiHealth = FreshHealth(call.at)
    /\ now = call.at


(***************************************************************************)
(* Further claims about the SmartContentProcessor (checked under ChunkSpec)*)
(***************************************************************************)
\* the chunks of the last chunkContent that came from paragraph packing, as
\* they were before addOverlap
paragraphChunks ==
    {chunker.sorted[i] : i \in {j \in 1..Len(chunker.sorted) :
                                   chunker.sorted[j].type = "paragraph"}}

\* the paragraphs of a text, trimmed
paragraphsOf(text) ==
    LET ps == split(text, 1, <<>>) IN {trim(ps[i]) : i \in 1..Len(ps)}

\* C31 as claimed: every chunk that paragraph packing produced is, before
\* overlap is attached, at most maxChunkSize long and is made of whole
\* paragraphs of a section of the content.
C31_Claimed ==
    Chunked =>
        \A chunk \in paragraphChunks :
            /\ Len(chunk.content) <= maxChunkSize
            /\ \A p \in paragraphsOf(chunk.content) :
                  \E k \in 1..Len(chunker.kept) : p \in paragraphsOf(chunker.kept[k])


(***************************************************************************)
(* ClientSpec: one RealtimeClient in the browser.  The application calls   *)
(* connect and disconnect, the page becomes visible, sockets open and      *)
(* close, reconnect timers fire.                                           *)
(***************************************************************************)
ClientInit ==
    /\ now = StartNow
    /\ ticks = 0
    /\ LimiterInit(NoFile)
    /\ CacheInit
    /\ race = IdleRace
    /\ orch = IdleOrch
    /\ manager = NewManager
    /\ promptCall = NoPromptCall
    /\ chunker = NoChunkCall
    /\ debouncer = NoDebounce
    /\ client = NewClient

ClientFrame ==
    UNCHANGED <<now, ticks, limiterVars, cacheVars, raceVars, orchVars, promptVars, chunkVars,
                debounceVars>>

ClientNext ==
    \/ Connect /\ ClientFrame
    \/ VisibilityChange /\ ClientFrame
    \/ Disconnect /\ ClientFrame
    \/ \E s \in client.sockets : SocketOpens(s) /\ ClientFrame
    \/ \E s \in client.sockets, code \in {NormalClosure, GoingAway, AbnormalClosure} :
          SocketCloses(s, code) /\ ClientFrame
    \/ \E tm \in client.timers : ReconnectTimer(tm) /\ ClientFrame
    \/ ClientClock /\ ClientFrame

ClientSpec == ClientInit /\ [][ClientNext]_vars

(***************************************************************************)
(* Claims about the RealtimeClient                                         *)
(***************************************************************************)
\* C32: the n-th reconnect scheduled since the last successful open is due
\* reconnectDelay x 2^(n-1) after the close that scheduled it; no more than
\* maxReconnectAttempts are scheduled without an open in between; an open
\* sets reconnectAttempts to 0; a close with code 1000 schedules nothing,
\* a close with another code schedules a reconnect while attempts are left.
C32_Backoff ==
    /\ client.sinceOpen <= maxReconnectAttempts
    /\ \A tm \in client.timers :
          /\ tm.n \in 1..maxReconnectAttempts
          /\ tm.due - tm.at = reconnectDelay * pow(2, tm.n - 1)
    /\ client.last.op = "open" => client.reconnectAttempts = 0
    /\ client.last.op = "close" =>
          client.last.scheduled <=>
             (client.last.code # NormalClosure /\ client.last.attempts < maxReconnectAttempts)

\* C32 witness: the fifth reconnect in a row has failed, 31 delays after the
\* first close, and no sixth is scheduled
C32_Witness ==
    /\ client.last.op = "close" /\ client.last.code = AbnormalClosure
    /\ client.last.attempts = maxReconnectAttempts
    /\ ~client.last.scheduled
    /\ client.timers = {}
    /\ client.clock = 31 * reconnectDelay

\* the sockets of the client that are connecting or open
liveSockets == {s \in client.sockets : s.state \in {"connecting", "open"}}

\* C40 as claimed: after disconnect() and until the application calls
\* connect(), the client has no connecting or open socket; and it never
\* has more than one.
C40_Claimed ==
    /\ client.idle => liveSockets = {}
    /\ Cardinality(liveSockets) <= 1


(***************************************************************************)
(* ReentrySpec: one SystemPromptManager whose subscribers may call its     *)
(* setters from inside their callbacks                                     *)
(***************************************************************************)
ReentryTexts == { Str(<<"margin">>), Str(<<" ", "revenue", NL>>), Str(<<>>) }
Reentrants == SUBSET {"s1", "s2"}
ReentryOps == {"updateUserText", "updateRetrievedContext"}

ReentryInit ==
    /\ now = StartNow
    /\ ticks = 0
    /\ LimiterInit(NoFile)
    /\ CacheInit
    /\ race = IdleRace
    /\ orch = IdleOrch
    /\ manager = NewManager
    /\ promptCall = NoPromptCall
    /\ chunker = NoChunkCall
    /\ debouncer = NoDebounce
    /\ client = NewClient

ReentryFrame ==
    UNCHANGED <<now, ticks, limiterVars, cacheVars, raceVars, orchVars, chunkVars,
                debounceVars, clientVars>>

ReentryNext ==
    \/ \E callback \in Subscribers : OnPromptUpdate(callback) /\ ReentryFrame
    \/ \E callback \in Subscribers : OffPromptUpdate(callback) /\ ReentryFrame
    \/ \E op \in ReentryOps, arg \in ReentryTexts, reentrants \in Reentrants :
          UpdateWithReentry(op, arg, reentrants) /\ ReentryFrame

ReentrySpec == ReentryInit /\ [][ReentryNext]_vars

(***************************************************************************)
(* Claims about re-entrant subscribers (checked under ReentrySpec)         *)
(***************************************************************************)
\* the prompts handed to a subscriber in the last setter call, in order
deliveredTo(callback) ==
    LET ds == SelectSeq(promptCall.deliveries, LAMBDA d : d.to = callback)
    IN  [i \in 1..Len(ds) |-> ds[i].prompt]

\* the prompts the last setter call built, in order
builtPrompts == [i \in 1..Len(promptCall.builds) |-> promptCall.builds[i].prompt]

SetterReturned == promptCall.op \in ReentryOps /\ ~promptCall.threw

\* C39 as claimed: when a setter call has returned, the last prompt each
\* registered subscriber was handed is lastBuiltPrompt and each subscriber
\* was handed the prompts in the order in which they were built, also when
\* subscribers called setters from inside their callbacks.
C39_Claimed ==
    SetterReturned =>
        \A callback \in seqRange(manager.promptUpdateCallbacks) :
            /\ deliveredTo(callback) # <<>>
            /\ deliveredTo(callback)[Len(deliveredTo(callback))] = manager.lastBuiltPrompt
            /\ deliveredTo(callback) = builtPrompts


(***************************************************************************)
(* Further claims about the limiter (checked under Spec)                   *)
(***************************************************************************)
\* the limiter was constructed without a file and has saved none since
FreshLimiter == ~limitsFile.exists

\* C34: from a limiter constructed without persisted state, successRate is
\* 1.0 (1000 thousandths) in every reachable state whatever outcomes are
\* recorded, so the health multiplier is never below 1.0, no user's
\* effective limit is below the base limit of the user's tier, and no
\* limit handed out by a call carries a multiplier below 1.0.
C34_HealthNeverDegrades ==
    FreshLimiter =>
        /\ apiHealth.successRate = 1000
        /\ getHealthMultiplier(apiHealth) >= 1000
        /\ \A u \in DOMAIN userLimits :
              limitOf(userLimits[u], apiHealth).requests
                  >= baseLimits[userLimits[u].tier].requests
        /\ call.op \in {"isRequestAllowed", "getUserLimit"} =>
              call.limit.healthMultiplier >= 1000

\* failures have been recorded on a fresh limiter, the last call among them
C34_Witness ==
    /\ FreshLimiter
    /\ call.op = "recordRequest" /\ ~call.success
    /\ apiHealth.errorCount >= 2
    /\ apiHealth.errorCount = apiHealth.totalRequests
    /\ apiHealth.successRate = 1000


\* a step that is isRequestAllowed(userId) for a user with a record
AllowCheckStep ==
    /\ call'.op = "isRequestAllowed"
    /\ call'.outcome = "returned"
    /\ outcomes' = outcomes + 1

\* C35 as claimed: an allow-check changes only the user's in-window request
\* counter and window start; the user's successCount, errorCount and tier
\* and the system health record are after it as they were before it.
C35_Claimed ==
    [][ AllowCheckStep =>
            /\ userLimits'[call'.userId].successCount = userLimits[call'.userId].successCount
            /\ userLimits'[call'.userId].errorCount = userLimits[call'.userId].errorCount
            /\ userLimits'[call'.userId].tier = userLimits[call'.userId].tier
            /\ apiHealth' = apiHealth ]_vars


\* C36: no call puts a user in the enterprise tier.  A limiter constructed
\* without a file holds only the tiers newUser, regular and power in every
\* state, and in every step a user who is in the enterprise tier after it
\* was in it before it.
C36_NoEnterprise ==
    /\ [](FreshLimiter =>
            \A u \in DOMAIN userLimits :
                userLimits[u].tier \in {"newUser", "regular", "power"})
    /\ [][ \A u \in DOMAIN userLimits' :
              userLimits'[u].tier = "enterprise" =>
                  (u \in DOMAIN userLimits /\ userLimits[u].tier = "enterprise") ]_vars

\* a power user with more than 200 outcomes, all successes, has had one more
\* success recorded and is a power user still
C36_Witness ==
    /\ Recorded
    /\ call.before.tier = "power"
    /\ userLimits[call.userId].tier = "power"
    /\ userLimits[call.userId].successCount = call.before.successCount + 1
    /\ totalOf(userLimits[call.userId]) >= 200
    /\ RateAtLeast(userLimits[call.userId], 95, 100)


====
